---- MODULE Spec2Model ----
(***************************************************************************)
(* Model of the interpretation layer of SlpDataEntry                       *)
(* (src/therepy_sessions/interpretation).                                  *)
(*                                                                         *)
(* Representation.  A Python str that the code iterates or compares (table *)
(* cells, column names, tally letters) is a sequence of one-character      *)
(* strings, so "Y" + "N" is <<"Y">> \o <<"N">> and iterating a str visits  *)
(* its elements.  Form labels and form values are only looked up and       *)
(* passed through, so they are TLA+ strings.  A Python list is a sequence  *)
(* (1-based here: Python index k is TLA+ index k + 1), a dict is a         *)
(* function.  A call either returns a value or raises; both are records of *)
(* one shape, built by Ok and Raise.                                       *)
(***************************************************************************)
EXTENDS Integers, Sequences, FiniteSets, TLC

VARIABLES
  called,                  \* which operation ran last ("none" after construction)
  self,                    \* the configuration of the interpreter the last call ran on
  data_sheet_content,      \* the raw content the last call received
  outcome,                 \* what the last call returned or raised
  invoked,                 \* Section Interpreters the last composite call invoked, in order
  created,                 \* StudentDataSheet objects the last composite call constructed
  cls_tables,              \* StudentDataSheet._tables, the class attribute
  cls_scalars,             \* StudentDataSheet._scalars, the class attribute
  calls,                   \* composite calls made so far
  received,                \* the content each invoked Section Interpreter was passed
  returned,                \* per StudentDataSheet returned so far: its tables and
                           \* scalars as the caller saw them when it was returned
  history,                 \* the Section Interpreter calls completed on this
                           \* content so far: who was called, and the outcome
  text,                    \* the text _split_by_labels is called with
  labels,                  \* the labels _split_by_labels is called with
  lookup,                  \* the label _get_labelled_content is called with
  management,              \* the DataSheetTemplateManagementWindow
  creator                  \* the TemplateCreatorWindow it opened last

vars == <<called, self, data_sheet_content, outcome, invoked, created,
          cls_tables, cls_scalars, calls, received, returned, history,
          text, labels, lookup, management, creator>>

----------------------------------------------------------------------------
(* Bounds of the model *)

MaxTables == 2
MaxRows == 2
MaxCalls == 2
MaxTextLen == 5
MaxCloses == 1
MaxWindows == 1

----------------------------------------------------------------------------
(* Python values *)

EmptyDict == [k \in {} |-> k]

DictSet(d, key, value) ==
  [k \in (DOMAIN d) \cup {key} |-> IF k = key THEN value ELSE d[k]]

Ok(v) == [status |-> "ok", value |-> v, error |-> "", args |-> <<>>]

Raise(e, a) == [status |-> "raise", value |-> <<>>, error |-> e, args |-> a]

\* F applied to the value of e, with e evaluated once.
With(e, F(_)) == CHOOSE out \in {F(v) : v \in {e}} : TRUE

\* A statement that may raise, followed by the rest of the block: what
\* `first` raised, or else `rest` of the value it returned.
Then(first, rest(_)) ==
  With(first, LAMBDA r : IF r.status # "ok" THEN r ELSE rest(r.value))

SeqsUpTo(S, n) == UNION {[1..k -> S] : k \in 0..n}

Contains(list, x) == \E i \in 1..Len(list) : list[i] = x

\* list.index(x): the position of the first element equal to x
ListIndex(list, x) ==
  CHOOSE i \in 1..Len(list) : list[i] = x /\ \A j \in 1..(i - 1) : list[j] # x

----------------------------------------------------------------------------
(* student_data_sheet.py *)

TEXT == "text"
INT == "int"
CHOICE == "choice"
DATE == "date"
BOOLEAN_TYPE == "boolean"

DataSheetScalarType == {TEXT, INT, CHOICE, DATE, BOOLEAN_TYPE}

DataSheetScalarFields == <<"key", "value", "type", "choice_options">>

\* The namedtuple's constructor: one positional argument per field, no
\* defaults, so any other number of arguments raises TypeError.
DataSheetScalarDto(positional) ==
  IF Len(positional) = Len(DataSheetScalarFields)
  THEN Ok([key |-> positional[1], value |-> positional[2],
           type |-> positional[3], choice_options |-> positional[4]])
  ELSE Raise("TypeError", <<>>)

DataSheetInterpretationDto(tables, scalars) ==
  [tables |-> tables, scalars |-> scalars]

----------------------------------------------------------------------------
(* template_types/table_interpreter.py *)

\* The keys of the dict comprehension over self._columns, in insertion
\* order: a column configured twice is one key, at its first place.
RECURSIVE DictKeys(_)
DictKeys(columns) ==
  IF columns = <<>> THEN <<>>
  ELSE With(DictKeys(SubSeq(columns, 1, Len(columns) - 1)),
            LAMBDA front :
              IF Contains(front, columns[Len(columns)]) THEN front
              ELSE Append(front, columns[Len(columns)]))

UpperCaseLetters ==
  <<"A", "B", "C", "D", "E", "F", "G", "H", "I", "J", "K", "L", "M",
    "N", "O", "P", "Q", "R", "S", "T", "U", "V", "W", "X", "Y", "Z">>

LowerCaseLetters ==
  <<"a", "b", "c", "d", "e", "f", "g", "h", "i", "j", "k", "l", "m",
    "n", "o", "p", "q", "r", "s", "t", "u", "v", "w", "x", "y", "z">>

Lower(c) ==
  IF \E i \in 1..Len(UpperCaseLetters) : UpperCaseLetters[i] = c
  THEN LowerCaseLetters[CHOOSE i \in 1..Len(UpperCaseLetters) :
                          UpperCaseLetters[i] = c]
  ELSE c

LowerStr(str) == [i \in 1..Len(str) |-> Lower(str[i])]

\* FirstMissing with the membership test made case-insensitive.
FirstMissingIgnoringCase(columns, columns_in_data_sheet) ==
  LET Has(name) == \E i \in 1..Len(columns_in_data_sheet) :
                     LowerStr(columns_in_data_sheet[i]) = LowerStr(name)
  IN IF \A i \in 1..Len(columns) : Has(columns[i]) THEN 0
     ELSE CHOOSE i \in 1..Len(columns) :
            ~Has(columns[i]) /\ \A j \in 1..(i - 1) : Has(columns[j])

\* Lines 70-72: the first configured column, in configured order, that the
\* header lacks; 0 when the header has them all.
FirstMissing(columns, columns_in_data_sheet) ==
  IF \A i \in 1..Len(columns) : Contains(columns_in_data_sheet, columns[i])
  THEN 0
  ELSE CHOOSE i \in 1..Len(columns) :
         /\ ~Contains(columns_in_data_sheet, columns[i])
         /\ \A j \in 1..(i - 1) : Contains(columns_in_data_sheet, columns[j])

\* The inner loop of lines 84-87 from the k-th dict item on: the cell is
\* read first, then the Scalar is built.
RECURSIVE TableRowDto(_, _, _, _, _)
TableRowDto(row_data, names, columns_in_data_sheet, k, row_dto) ==
  IF k > Len(names) THEN Ok(row_dto)
  ELSE LET column_name == names[k]
           column_index == ListIndex(columns_in_data_sheet, column_name)
       IN IF column_index > Len(row_data) THEN Raise("IndexError", <<>>)
          ELSE Then(DataSheetScalarDto(<<column_name, row_data[column_index], TEXT>>),
                    LAMBDA cell_data_dto :
                      TableRowDto(row_data, names, columns_in_data_sheet, k + 1,
                                  DictSet(row_dto, column_name, cell_data_dto)))

\* The loop of lines 82-89 from row r of the table on.
RECURSIVE TableData(_, _, _, _)
TableData(data_sheet_table, names, r, data) ==
  IF r > Len(data_sheet_table) THEN Ok(data)
  ELSE Then(TableRowDto(data_sheet_table[r], names, data_sheet_table[1], 1, EmptyDict),
            LAMBDA row_dto :
              TableData(data_sheet_table, names, r + 1, Append(data, row_dto)))

\* TableInterpretSingle with "columns" answered from the header row.
TableInterpretSingleEchoingHeader(columns, data_sheet_table) ==
  IF Len(data_sheet_table) = 0 THEN Raise("IndexError", <<>>)
  ELSE LET columns_in_data_sheet == data_sheet_table[1]
           missing == FirstMissing(columns, columns_in_data_sheet)
       IN IF missing # 0 THEN Raise("MissingColumn", columns[missing])
          ELSE Then(TableData(data_sheet_table, DictKeys(columns), 2, <<>>),
                    LAMBDA data :
                      Ok([columns |-> columns_in_data_sheet, data |-> data]))

\* TableInterpreter._interpret_single_student_data_sheet_table
TableInterpretSingle(columns, data_sheet_table) ==
  IF Len(data_sheet_table) = 0 THEN Raise("IndexError", <<>>)
  ELSE LET columns_in_data_sheet == data_sheet_table[1]
           missing == FirstMissing(columns, columns_in_data_sheet)
       IN IF missing # 0 THEN Raise("MissingColumn", columns[missing])
          ELSE IF \E i \in 1..Len(columns) :
                    ~Contains(columns_in_data_sheet, columns[i])
               THEN Raise("ValueError", <<>>)
          ELSE Then(TableData(data_sheet_table, DictKeys(columns), 2, <<>>),
                    LAMBDA data : Ok([columns |-> columns, data |-> data]))

\* The list comprehension of lines 48-52 from the k-th raw table on: the
\* first table that raises ends the call.
RECURSIVE TableInterpretAll(_, _, _, _)
TableInterpretAll(columns, raw_tables, k, tables) ==
  IF k > Len(raw_tables) THEN Ok(tables)
  ELSE Then(TableInterpretSingle(columns, raw_tables[k]),
            LAMBDA table :
              TableInterpretAll(columns, raw_tables, k + 1, Append(tables, table)))

\* TableInterpreter.interpret_student_data_sheet_content
TableInterpretContent(columns, content) ==
  Then(TableInterpretAll(columns, content.tables, 1, <<>>),
       LAMBDA tables : Ok(DataSheetInterpretationDto(tables, EmptyDict)))

\* TableInterpreter.__init__
TableInterpreter(columns) == [kind |-> "table", columns |-> columns]

----------------------------------------------------------------------------
(* student_data_template.py: ColumnTableStudentDataSheetTemplate *)

\* The inner loop of lines 262-263 from the k-th dict item on: the raw cell
\* is stored as it is.
RECURSIVE ColumnTableRowDto(_, _, _, _, _)
ColumnTableRowDto(row_data, names, columns_in_data_sheet, k, row_dto) ==
  IF k > Len(names) THEN Ok(row_dto)
  ELSE LET column_name == names[k]
           column_index == ListIndex(columns_in_data_sheet, column_name)
       IN IF column_index > Len(row_data) THEN Raise("IndexError", <<>>)
          ELSE ColumnTableRowDto(row_data, names, columns_in_data_sheet, k + 1,
                                 DictSet(row_dto, column_name, row_data[column_index]))

\* The loop of lines 260-265 from row r of the table on.
RECURSIVE ColumnTableData(_, _, _, _)
ColumnTableData(data_sheet_table, names, r, data) ==
  IF r > Len(data_sheet_table) THEN Ok(data)
  ELSE Then(ColumnTableRowDto(data_sheet_table[r], names, data_sheet_table[1],
                              1, EmptyDict),
            LAMBDA row_dto :
              ColumnTableData(data_sheet_table, names, r + 1, Append(data, row_dto)))

\* ColumnTableStudentDataSheetTemplate._interpret_single_student_data_sheet_table
ColumnTableInterpretSingle(columns, data_sheet_table) ==
  IF Len(data_sheet_table) = 0 THEN Raise("IndexError", <<>>)
  ELSE LET columns_in_data_sheet == data_sheet_table[1]
           missing == FirstMissing(columns, columns_in_data_sheet)
       IN IF missing # 0 THEN Raise("MissingColumn", columns[missing])
          ELSE Then(ColumnTableData(data_sheet_table, DictKeys(columns), 2, <<>>),
                    LAMBDA data : Ok([columns |-> columns, data |-> data]))

\* ColumnTableStudentDataSheetTemplate._interpret_student_data_sheet_tables:
\* the list comprehension of lines 228-232 from the k-th raw table on.
RECURSIVE ColumnTableInterpretAll(_, _, _, _)
ColumnTableInterpretAll(columns, data_sheet_tables, k, tables) ==
  IF k > Len(data_sheet_tables) THEN Ok(tables)
  ELSE Then(ColumnTableInterpretSingle(columns, data_sheet_tables[k]),
            LAMBDA table :
              ColumnTableInterpretAll(columns, data_sheet_tables, k + 1,
                                      Append(tables, table)))

\* ColumnTableStudentDataSheetTemplate.__init__
ColumnTableStudentDataSheetTemplate(columns) ==
  [kind |-> "column_table", columns |-> columns]

----------------------------------------------------------------------------
(* template_types/running_tally_interpreter.py *)

\* LettersString with the reduction written as s + acc.
RECURSIVE LettersStringPrepending(_)
LettersStringPrepending(row) ==
  IF row = <<>> THEN <<>>
  ELSE row[Len(row)] \o LettersStringPrepending(SubSeq(row, 1, Len(row) - 1))

\* reduce(lambda acc, s: acc + s, row, ''): the cells of one row, appended
\* left to right.
RECURSIVE LettersString(_)
LettersString(row) ==
  IF row = <<>> THEN <<>>
  ELSE LettersString(SubSeq(row, 1, Len(row) - 1)) \o row[Len(row)]

\* The loop of lines 60-62 from row r of the table on.
RECURSIVE TallyString(_, _, _)
TallyString(data_sheet_table, r, tally_string) ==
  IF r > Len(data_sheet_table) THEN tally_string
  ELSE TallyString(data_sheet_table, r + 1,
                   tally_string \o LettersString(data_sheet_table[r]))

tally_column_name == <<"T", "a", "l", "l", "y">>

\* TallyAsRows with every tally Scalar typed TEXT, as table cells are.
RECURSIVE TallyAsRowsOfText(_, _, _, _, _)
TallyAsRowsOfText(tally_type, tally_choice_options, tally_string, n, rows) ==
  IF n > Len(tally_string) THEN Ok(rows)
  ELSE Then(DataSheetScalarDto(<<tally_column_name, <<tally_string[n]>>,
                                 TEXT, tally_choice_options>>),
            LAMBDA dto :
              TallyAsRowsOfText(tally_type, tally_choice_options, tally_string,
                                n + 1,
                                Append(rows, DictSet(EmptyDict, tally_column_name, dto))))

\* Lines 66-70: one row per letter of tally_string, each a dict of one
\* Scalar under tally_column_name.
RECURSIVE TallyAsRows(_, _, _, _, _)
TallyAsRows(tally_type, tally_choice_options, tally_string, n, rows) ==
  IF n > Len(tally_string) THEN Ok(rows)
  ELSE Then(DataSheetScalarDto(<<tally_column_name, <<tally_string[n]>>,
                                 tally_type, tally_choice_options>>),
            LAMBDA dto :
              TallyAsRows(tally_type, tally_choice_options, tally_string, n + 1,
                          Append(rows, DictSet(EmptyDict, tally_column_name, dto))))

\* RunningTallyInterpreter._interpret_single_student_data_sheet_table
TallyInterpretSingle(tally_type, tally_choice_options, data_sheet_table) ==
  With(TallyString(data_sheet_table, 1, <<>>),
       LAMBDA tally_string :
         Then(TallyAsRows(tally_type, tally_choice_options, tally_string, 1, <<>>),
              LAMBDA tally_as_rows :
                Ok([columns |-> <<tally_column_name>>, data |-> tally_as_rows])))

\* TallyInterpretAll with a raw table that has no rows passed over.
RECURSIVE TallyInterpretAllSkippingEmpty(_, _, _, _, _)
TallyInterpretAllSkippingEmpty(tally_type, tally_choice_options, raw_tables, k, tables) ==
  IF k > Len(raw_tables) THEN Ok(tables)
  ELSE IF raw_tables[k] = <<>>
       THEN TallyInterpretAllSkippingEmpty(tally_type, tally_choice_options,
                                           raw_tables, k + 1, tables)
  ELSE Then(TallyInterpretSingle(tally_type, tally_choice_options, raw_tables[k]),
            LAMBDA table :
              TallyInterpretAllSkippingEmpty(tally_type, tally_choice_options,
                                             raw_tables, k + 1, Append(tables, table)))

\* The list comprehension of lines 48-52 from the k-th raw table on.
RECURSIVE TallyInterpretAll(_, _, _, _, _)
TallyInterpretAll(tally_type, tally_choice_options, raw_tables, k, tables) ==
  IF k > Len(raw_tables) THEN Ok(tables)
  ELSE Then(TallyInterpretSingle(tally_type, tally_choice_options, raw_tables[k]),
            LAMBDA table :
              TallyInterpretAll(tally_type, tally_choice_options, raw_tables,
                                k + 1, Append(tables, table)))

\* RunningTallyInterpreter.interpret_student_data_sheet_content
TallyInterpretContent(tally_type, tally_choice_options, content) ==
  Then(TallyInterpretAll(tally_type, tally_choice_options, content.tables, 1, <<>>),
       LAMBDA tables : Ok(DataSheetInterpretationDto(tables, EmptyDict)))

\* RunningTallyInterpreter.__init__
RunningTallyInterpreter(tally_type, tally_choice_options) ==
  [kind |-> "running_tally", tally_type |-> tally_type,
   tally_choice_options |-> tally_choice_options]

----------------------------------------------------------------------------
(* template_types/simple_form_interpreter.py *)

\* Iterating form_data, a dict, yields its keys, and a key is a str: it has
\* neither a key nor a value attribute.
StrAttribute(kv, name) == Raise("AttributeError", <<name>>)

\* The dict comprehension of lines 56-61 over the items still to visit: the
\* condition reads kv.key first, for every element.
RECURSIVE FormScalars(_, _, _)
FormScalars(fields, remaining, scalars) ==
  IF remaining = {} THEN Ok(scalars)
  ELSE LET kv == CHOOSE k \in remaining : TRUE
       IN Then(StrAttribute(kv, "key"),
               LAMBDA key :
                 IF key \notin fields
                 THEN FormScalars(fields, remaining \ {kv}, scalars)
                 ELSE Then(StrAttribute(kv, "value"),
                           LAMBDA value :
                             FormScalars(fields, remaining \ {kv},
                                         DictSet(scalars, key, value))))

\* SimpleFormInterpreter.interpret_student_data_sheet_content
FormInterpretContent(fields, content) ==
  Then(FormScalars(fields, DOMAIN content.form_data, EmptyDict),
       LAMBDA scalars : Ok(DataSheetInterpretationDto(<<>>, scalars)))

\* SimpleFormInterpreter.__init__; fields stands for self._fields.keys()
SimpleFormInterpreter(fields) == [kind |-> "simple_form", fields |-> fields]

----------------------------------------------------------------------------
(* student_data_sheet.py: StudentDataSheet *)

\* StudentDataSheet.__init__ with the constructor assigning fields to the
\* wrong parameters: date and time_in exchanged.
StudentDataSheetSwapped(student_key, student_goal, date, time_in, time_out, measure) ==
  [student_key |-> student_key, student_goal |-> student_goal, date |-> time_in,
   time_in |-> date, time_out |-> time_out, measure |-> measure]

\* StudentDataSheet.__init__ assigns the six instance attributes and nothing
\* else: _tables and _scalars stay the attributes of the class, which every
\* instance reads and appends to.
StudentDataSheet(student_key, student_goal, date, time_in, time_out, measure) ==
  [student_key |-> student_key, student_goal |-> student_goal, date |-> date,
   time_in |-> time_in, time_out |-> time_out, measure |-> measure]

\* StudentDataSheet.tables: self._tables, which no instance assigns, so the
\* attribute of the class
DataSheetTables(data_sheet) == cls_tables

\* StudentDataSheet.scalars: self._scalars, likewise the attribute of the class
DataSheetScalars(data_sheet) == cls_scalars

\* register_table that skips a table equal to one already registered.
register_table_unless_present(tables, table) ==
  IF Contains(tables, table) THEN tables ELSE Append(tables, table)

\* StudentDataSheet.register_table, on the list self._tables names
register_table(tables, table) == Append(tables, table)

\* register_scalar that keeps the entry a key already has.
register_scalar_unless_present(scalars, scalar_name, scalar_dto) ==
  IF scalar_name \in DOMAIN scalars THEN scalars
  ELSE DictSet(scalars, scalar_name, scalar_dto)

\* StudentDataSheet.register_scalar, on the dict self._scalars names
register_scalar(scalars, scalar_name, scalar_dto) ==
  DictSet(scalars, scalar_name, scalar_dto)

----------------------------------------------------------------------------
(* student_data_sheet_interpreter.py: StudentDataSheetInterpreter *)

\* d.get(key, "") in the place of d[key]
DictGetOrBlank(d, key) ==
  IF key \in DOMAIN d THEN Ok(d[key]) ELSE Ok("")

\* d[key] on a dict
DictGet(d, key) ==
  IF key \in DOMAIN d THEN Ok(d[key]) ELSE Raise("KeyError", <<key>>)

\* The form labels lines 88-93 look up, in the order of the lookups.
RequiredLabels ==
  <<"Student Key", "Date", "Time IN", "Time OUT", "Goal", "Measure">>

\* Lines 88-93: six lookups in form_data, the first absent label raising.
RECURSIVE RequiredFields(_, _, _)
RequiredFields(form_data, k, found) ==
  IF k > Len(RequiredLabels) THEN Ok(found)
  ELSE Then(DictGet(form_data, RequiredLabels[k]),
            LAMBDA field : RequiredFields(form_data, k + 1, Append(found, field)))

\* A call template.interpret_student_data_sheet_content(data_sheet_content)
\* and what it leaves behind: result is what the call returns or raises,
\* self the attributes of the instance when the call ends, content the
\* items of the object it was given when the call ends.  The caller goes on
\* with these objects, and so does whoever is called with them next.

\* TableInterpreterCall with the header row taken off each raw table once it
\* is read, as data_sheet_table.pop(0) would take it.
TableInterpreterCallTakingHeaders(instance, content) ==
  [result |-> TableInterpretContent(instance.columns, content),
   self |-> instance,
   content |-> [content EXCEPT !.tables =
                  [k \in 1..Len(@) |-> IF @[k] = <<>> THEN <<>> ELSE Tail(@[k])]]]

\* On a TableInterpreter.  Lines 48-54 and 68-94: the tables, their rows and
\* self._columns are read by index and by iteration and bound to local
\* names; no attribute of self and no item of the content is assigned, and
\* no method that changes a list is called on them.
TableInterpreterCall(instance, content) ==
  [result |-> TableInterpretContent(instance.columns, content),
   self |-> instance,
   content |-> content]

\* TallyInterpreterCall with the tables it has read kept on the instance, and
\* every table read after those that were kept for its place.
TallyInterpreterCallKeepingTally(instance, content) ==
  LET kept == IF "tally" \in DOMAIN instance THEN instance.tally ELSE <<>>
      read == [k \in 1..Len(content.tables) |->
                 (IF k <= Len(kept) THEN kept[k] ELSE <<>>) \o content.tables[k]]
  IN [result |-> TallyInterpretContent(instance.tally_type,
                                       instance.tally_choice_options,
                                       [content EXCEPT !.tables = read]),
      self |-> [name \in DOMAIN instance \cup {"tally"} |->
                  IF name = "tally" THEN read ELSE instance[name]],
      content |-> content]

\* On a RunningTallyInterpreter.  Lines 48-54 and 57-75: tally_string and the
\* rows made of it are local names; no attribute of self and no item of the
\* content is assigned.
TallyInterpreterCall(instance, content) ==
  [result |-> TallyInterpretContent(instance.tally_type,
                                    instance.tally_choice_options, content),
   self |-> instance,
   content |-> content]

\* On a SimpleFormInterpreter.  Lines 56-63: form_data and self._fields are
\* read; the dict that is filled is a new one.
FormInterpreterCall(instance, content) ==
  [result |-> FormInterpretContent(instance.fields, content),
   self |-> instance,
   content |-> content]

\* SessionDataInterpreterBase.interpret_student_data_sheet_content, by the
\* class of the template.  A "fixed" template is any other subclass of the
\* abstract base: it returns the DataSheetInterpretationDto it was built
\* with, whatever the content.
InterpretContent(template, content) ==
  CASE template.kind = "table" ->
         TableInterpretContent(template.columns, content)
    [] template.kind = "running_tally" ->
         TallyInterpretContent(template.tally_type, template.tally_choice_options,
                               content)
    [] template.kind = "simple_form" ->
         FormInterpretContent(template.fields, content)
    [] template.kind = "fixed" -> Ok(template.interpretation)

FixedInterpreter(tables, scalars) ==
  [kind |-> "fixed", interpretation |-> DataSheetInterpretationDto(tables, scalars)]

\* The call of line 98 on one template, by the class of the template, with
\* what it leaves behind.
InterpreterCall(template, content) ==
  CASE template.kind = "table" -> TableInterpreterCall(template, content)
    [] template.kind = "running_tally" -> TallyInterpreterCall(template, content)
    [] template.kind = "simple_form" -> FormInterpreterCall(template, content)
    [] template.kind = "fixed" ->
         [result |-> InterpretContent(template, content),
          self |-> template,
          content |-> content]

\* What the comprehension of lines 97-101 came to, with the calls it made:
\* which templates, and the content each was passed; content is the content
\* object as the last call left it.
Invocations(result, log, content) ==
  [result |-> result,
   invoked |-> [j \in 1..Len(log) |-> log[j].template],
   received |-> [j \in 1..Len(log) |-> log[j].content],
   content |-> content]

\* InterpretEach with a template that raises skipped and the rest still run.
RECURSIVE InterpretEachSkippingFailures(_, _, _, _, _)
InterpretEachSkippingFailures(templates, content, k, interpretations, log) ==
  IF k > Len(templates)
  THEN Invocations(Ok(interpretations), log, content)
  ELSE With(InterpreterCall(templates[k], content),
            LAMBDA call :
              InterpretEachSkippingFailures(
                templates, call.content, k + 1,
                IF call.result.status # "ok" THEN interpretations
                ELSE Append(interpretations, call.result.value),
                Append(log, [template |-> k, content |-> content])))

\* InterpretEach with the tables handed on only until a template has made
\* something of them: the templates after it see none.
RECURSIVE InterpretEachPartitioning(_, _, _, _, _)
InterpretEachPartitioning(templates, content, k, interpretations, log) ==
  IF k > Len(templates)
  THEN Invocations(Ok(interpretations), log, content)
  ELSE With(InterpreterCall(templates[k], content),
            LAMBDA call :
              IF call.result.status # "ok"
              THEN Invocations(call.result,
                               Append(log, [template |-> k, content |-> content]),
                               call.content)
              ELSE InterpretEachPartitioning(
                     templates,
                     IF call.result.value.tables = <<>> THEN call.content
                     ELSE [call.content EXCEPT !.tables = <<>>],
                     k + 1,
                     Append(interpretations, call.result.value),
                     Append(log, [template |-> k, content |-> content])))

\* The list comprehension of lines 97-101 from the k-th template on: each
\* template is called on the same content object, which a template gets as
\* the calls before it left it, and the first one that raises ends the
\* comprehension.  log lists the templates called so far.
RECURSIVE InterpretEach(_, _, _, _, _)
InterpretEach(templates, content, k, interpretations, log) ==
  IF k > Len(templates)
  THEN Invocations(Ok(interpretations), log, content)
  ELSE With(InterpreterCall(templates[k], content),
            LAMBDA call :
              IF call.result.status # "ok"
              THEN Invocations(call.result,
                               Append(log, [template |-> k, content |-> content]),
                               call.content)
              ELSE InterpretEach(templates, call.content, k + 1,
                                 Append(interpretations, call.result.value),
                                 Append(log, [template |-> k, content |-> content])))

\* Lines 104-105: register_table for each table of one interpretation.
RECURSIVE RegisterTables(_, _, _)
RegisterTables(tables, new_tables, k) ==
  IF k > Len(new_tables) THEN tables
  ELSE RegisterTables(register_table(tables, new_tables[k]), new_tables, k + 1)

\* Lines 107-108: register_scalar for each item of one interpretation.
RECURSIVE RegisterScalars(_, _, _)
RegisterScalars(scalars, new_scalars, remaining) ==
  IF remaining = {} THEN scalars
  ELSE LET scalar_name == CHOOSE name \in remaining : TRUE
       IN RegisterScalars(
            register_scalar(scalars, scalar_name, new_scalars[scalar_name]),
            new_scalars, remaining \ {scalar_name})

\* The loop of lines 103-108 from the k-th interpretation on.
RECURSIVE RegisterAll(_, _, _)
RegisterAll(store, interpretations, k) ==
  IF k > Len(interpretations) THEN store
  ELSE With([tables |-> RegisterTables(store.tables, interpretations[k].tables, 1),
             scalars |-> RegisterScalars(store.scalars, interpretations[k].scalars,
                                         DOMAIN interpretations[k].scalars)],
            LAMBDA registered : RegisterAll(registered, interpretations, k + 1))

\* InterpretWithFields with each interpretation registered as soon as its
\* template has returned, so that a later failure leaves the earlier ones
\* registered.
InterpretWithFieldsRegisteringAsItGoes(fields, templates, content, store) ==
  With(InterpretEach(templates, content, 1, <<>>, <<>>),
       LAMBDA each :
         IF each.result.status # "ok"
         THEN [result |-> each.result, invoked |-> each.invoked,
               received |-> each.received, content |-> each.content,
               created |-> 1,
               store |-> RegisterAll(
                           store,
                           InterpretEach(SubSeq(templates, 1, Len(each.invoked) - 1),
                                         content, 1, <<>>, <<>>).result.value,
                           1)]
         ELSE [result |-> Ok(StudentDataSheet(fields[1], fields[5], fields[2],
                                              fields[3], fields[4], fields[6])),
               invoked |-> each.invoked,
               received |-> each.received, content |-> each.content,
               created |-> 1,
               store |-> RegisterAll(store, each.result.value, 1)])

\* Lines 95-110, once the six fields are read: the DataSheet is
\* constructed, the templates are run, and only then is anything registered.
InterpretWithFields(fields, templates, content, store) ==
  LET student_key == fields[1]
      date == fields[2]
      time_in == fields[3]
      time_out == fields[4]
      student_goal == fields[5]
      measure == fields[6]
      data_sheet == StudentDataSheet(student_key, student_goal, date,
                                     time_in, time_out, measure)
  IN With(InterpretEach(templates, content, 1, <<>>, <<>>),
          LAMBDA each :
            IF each.result.status # "ok"
            THEN [result |-> each.result, invoked |-> each.invoked,
                  received |-> each.received, content |-> each.content,
                  created |-> 1, store |-> store]
            ELSE [result |-> Ok(data_sheet), invoked |-> each.invoked,
                  received |-> each.received, content |-> each.content,
                  created |-> 1,
                  store |-> RegisterAll(store, each.result.value, 1)])

\* StudentDataSheetInterpreter.interpret_student_data_sheet: what the call
\* returns or raises, which templates it called, the content object as it
\* leaves it (form_data is read with [], lines 88-93, and the templates get
\* the object itself), how many StudentDataSheet objects it constructed, and
\* the class attributes it leaves behind.
InterpretStudentDataSheet(templates, content, store) ==
  With(RequiredFields(content.form_data, 1, <<>>),
       LAMBDA fields :
         IF fields.status # "ok"
         THEN [result |-> fields, invoked |-> <<>>, received |-> <<>>,
               content |-> content, created |-> 0, store |-> store]
         ELSE InterpretWithFields(fields.value, templates, content, store))

\* StudentDataSheetInterpreter.__init__
StudentDataSheetInterpreter(session_data_templates) ==
  [kind |-> "composite", session_data_templates |-> session_data_templates]

----------------------------------------------------------------------------
(* student_data_sheet_interpreter.py: _split_by_labels *)
(* Positions are Python's, from 0: the character at position p of a str is *)
(* element p + 1 of the sequence.                                          *)

\* A slice bound as Python reads it on a str of length n: counted from the
\* end when negative, and kept within 0..n.
SliceBound(i, n) ==
  IF i < 0 THEN (IF i + n < 0 THEN 0 ELSE i + n)
  ELSE IF i > n THEN n ELSE i

\* str[start:stop]
Slice(str, start, stop) ==
  LET lo == SliceBound(start, Len(str))
      hi == SliceBound(stop, Len(str))
  IN IF lo >= hi THEN <<>> ELSE SubSeq(str, lo + 1, hi)

\* The positions at which sub occurs in str.
Occurrences(str, sub) ==
  {p \in 0..(Len(str) - Len(sub)) : SubSeq(str, p + 1, p + Len(sub)) = sub}

\* str.find(sub): the lowest position at which sub occurs, -1 when it does not
Find(str, sub) ==
  IF Occurrences(str, sub) = {} THEN -1
  ELSE CHOOSE p \in Occurrences(str, sub) : \A q \in Occurrences(str, sub) : p <= q

IsSpace(c) == c \in {" ", "\n", "\t"}

\* str.strip()
RECURSIVE Strip(_)
Strip(str) ==
  IF str = <<>> THEN <<>>
  ELSE IF IsSpace(str[1]) THEN Strip(Tail(str))
  ELSE IF IsSpace(str[Len(str)]) THEN Strip(SubSeq(str, 1, Len(str) - 1))
  ELSE str

\* The positions of str from the highest at which sub occurs.
FindLast(str, sub) ==
  IF Occurrences(str, sub) = {} THEN -1
  ELSE CHOOSE p \in Occurrences(str, sub) : \A q \in Occurrences(str, sub) : p >= q

\* str.rsplit(sep, maxsplit=1): the str cut at its last separator.
SplitOnceAtLast(str, sep) ==
  IF FindLast(str, <<sep>>) = -1 THEN <<str>>
  ELSE <<Slice(str, 0, FindLast(str, <<sep>>)),
         Slice(str, FindLast(str, <<sep>>) + 1, Len(str))>>

\* str.split(sep, maxsplit=1) for a separator of one character: the str
\* alone when it has no separator, else what is before and what is after
\* the first one.
SplitOnce(str, sep) ==
  IF Find(str, <<sep>>) = -1 THEN <<str>>
  ELSE <<Slice(str, 0, Find(str, <<sep>>)),
         Slice(str, Find(str, <<sep>>) + 1, Len(str))>>

\* list[k] for k counted from 0
ListItem(list, k) ==
  IF k + 1 \in 1..Len(list) THEN Ok(list[k + 1]) ELSE Raise("IndexError", <<>>)

\* LabelWPosition(label, pos)
LabelWPosition(label, pos) == [label |-> label, pos |-> pos]

\* One step of sorted(..., key=lambda lwp: lwp.pos): lwp put behind every
\* entry whose pos is not greater, which keeps entries of equal pos in the
\* order they came in.
RECURSIVE InsertByPos(_, _)
InsertByPos(sorted, lwp) ==
  IF sorted = <<>> THEN <<lwp>>
  ELSE IF sorted[Len(sorted)].pos <= lwp.pos THEN Append(sorted, lwp)
  ELSE Append(InsertByPos(SubSeq(sorted, 1, Len(sorted) - 1), lwp),
              sorted[Len(sorted)])

\* The labels left in the order of the expected list.
UnsortedByPos(labels_with_positions) == labels_with_positions

\* sorted(labels_with_positions, key=lambda lwp: lwp.pos)
RECURSIVE SortedByPos(_)
SortedByPos(labels_with_positions) ==
  IF labels_with_positions = <<>> THEN <<>>
  ELSE With(SortedByPos(SubSeq(labels_with_positions, 1,
                               Len(labels_with_positions) - 1)),
            LAMBDA sorted :
              InsertByPos(sorted,
                          labels_with_positions[Len(labels_with_positions)]))

\* The keys and the label that lines 158-159 give the leading span.
student_key == <<"s", "t", "u", "d", "e", "n", "t", "_", "k", "e", "y">>

StudentKeyLabel == <<"S", "t", "u", "d", "e", "n", "t", " ", "K", "e", "y">>

\* The loop of lines 136-151 from the i-th sorted label on (i from 0).
RECURSIVE LabelSpans(_, _, _, _)
LabelSpans(str, labels_with_positions, i, text_by_label) ==
  IF i >= Len(labels_with_positions) THEN Ok(text_by_label)
  ELSE LET label == labels_with_positions[i + 1].label
           pos == labels_with_positions[i + 1].pos
           next_label_position ==
             IF i + 1 >= Len(labels_with_positions) THEN Len(str)
             ELSE labels_with_positions[i + 2].pos
           content_with_label == Strip(Slice(str, pos, next_label_position))
       IN Then(ListItem(SplitOnce(content_with_label, ":"), 1),
               LAMBDA after_colon :
                 LabelSpans(str, labels_with_positions, i + 1,
                            DictSet(text_by_label, LowerStr(label),
                                    [label |-> label,
                                     content_with_label |-> content_with_label,
                                     content_without_label |-> Strip(after_colon)])))

\* Lines 153-164: the leading span, entered under 'student_key'.
WithStudentKey(str, labels_with_positions, text_by_label) ==
  Then(ListItem(labels_with_positions, 0),
       LAMBDA first :
         LET student_key_content == Strip(Slice(str, 0, first.pos))
         IN Ok(DictSet(text_by_label, student_key,
                       [label |-> StudentKeyLabel,
                        content_with_label |-> student_key_content,
                        content_without_label |-> student_key_content])))

\* StudentDataSheetInterpreter._split_by_labels
SplitByLabels(str, expected) ==
  With(SortedByPos([k \in 1..Len(expected) |->
                      LabelWPosition(expected[k], Find(str, expected[k]))]),
       LAMBDA labels_with_positions :
         Then(LabelSpans(str, labels_with_positions, 0, EmptyDict),
              LAMBDA text_by_label :
                WithStudentKey(str, labels_with_positions, text_by_label)))

\* StudentDataSheetInterpreter._get_labelled_content
GetLabelledContent(text_by_label, lbl) ==
  IF LowerStr(lbl) \in DOMAIN text_by_label
  THEN Ok(text_by_label[LowerStr(lbl)].content_without_label)
  ELSE Raise("KeyError", <<LowerStr(lbl)>>)

----------------------------------------------------------------------------
(* student_data_template.py: BaseStudentDataSheetTemplate *)

\* expected_meta_labels of lines 82-84
expected_meta_labels ==
  <<<<"D", "a", "t", "e">>,
    <<"T", "i", "m", "e", " ", "I", "N">>,
    <<"T", "i", "m", "e", " ", "O", "U", "T">>,
    <<"G", "o", "a", "l">>,
    <<"M", "e", "a", "s", "u", "r", "e">>,
    <<"D", "a", "t", "a">>>>

\* The label line 91 asks for the time out with
TimeOuTLabel == <<"T", "i", "m", "e", " ", "O", "u", "T">>

\* Lines 88-93: the six _get_labelled_content calls, the first to raise
\* ending them; the contents in the order student_key, date, time_in,
\* time_out, student_goal, measure.
RECURSIVE LabelledContents(_, _, _, _)
LabelledContents(labelled_sections, asked, k, contents) ==
  IF k > Len(asked) THEN Ok(contents)
  ELSE Then(GetLabelledContent(labelled_sections, asked[k]),
            LAMBDA content :
              LabelledContents(labelled_sections, asked, k + 1,
                               Append(contents, content)))

\* Lines 99-100: register_table for each interpreted table.
RECURSIVE TemplateRegisterTables(_, _, _)
TemplateRegisterTables(tables, interpreted, k) ==
  IF k > Len(interpreted) THEN tables
  ELSE TemplateRegisterTables(register_table(tables, interpreted[k]),
                              interpreted, k + 1)

\* Lines 86-93 of interpret_student_data_sheet: the text split by the
\* expected labels and the six contents read from the sections.
TemplateLabelledContents(str) ==
  Then(SplitByLabels(str, expected_meta_labels),
       LAMBDA labelled_sections :
         LabelledContents(labelled_sections,
                          <<student_key, expected_meta_labels[1],
                            expected_meta_labels[2], TimeOuTLabel,
                            expected_meta_labels[4], expected_meta_labels[5]>>,
                          1, <<>>))

\* Lines 95-102 of interpret_student_data_sheet on a
\* ColumnTableStudentDataSheetTemplate, given what lines 86-93 came to: what
\* the call returns or raises, how many StudentDataSheet objects it
\* constructed and StudentDataSheet._tables as it leaves it.
TemplateInterpretWithContents(columns, contents, data_sheet_tables, tables) ==
  IF contents.status # "ok"
  THEN [result |-> contents, created |-> 0, tables |-> tables]
  ELSE LET c == contents.value
           data_sheet == StudentDataSheet(c[1], c[5], c[2], c[3], c[4], c[6])
       IN With(ColumnTableInterpretAll(columns, data_sheet_tables, 1, <<>>),
               LAMBDA interpreted :
                 IF interpreted.status # "ok"
                 THEN [result |-> interpreted, created |-> 1, tables |-> tables]
                 ELSE [result |-> Ok(data_sheet), created |-> 1,
                       tables |-> TemplateRegisterTables(
                                    tables, interpreted.value, 1)])

\* BaseStudentDataSheetTemplate.interpret_student_data_sheet on a
\* ColumnTableStudentDataSheetTemplate
TemplateInterpretStudentDataSheet(columns, content, tables) ==
  With(TemplateLabelledContents(content.text),
       LAMBDA contents :
         TemplateInterpretWithContents(columns, contents, content.tables, tables))

----------------------------------------------------------------------------
(* Inputs of the Table Interpreter *)

ColA == <<"A">>
ColLowerA == <<"a">>
ColSpaceA == <<" ", "A">>
ColB == <<"B">>

ColumnConfigs ==
  {<<>>, <<ColA>>, <<ColB>>, <<ColA, ColB>>, <<ColA, ColA>>}

\* Rows serve as header rows and as data rows.
TableRows ==
  {<<ColA, ColB>>, <<ColLowerA, ColSpaceA>>, <<ColB, ColB, ColA>>}

RawTables(Rows) == SeqsUpTo(Rows, MaxRows)

RawContents(Rows) ==
  {[form_data |-> EmptyDict, tables |-> tables] :
     tables \in SeqsUpTo(RawTables(Rows), MaxTables)}

\* No call has been made and no StudentDataSheet exists.
NoCall ==
  /\ called = "none"
  /\ outcome = Ok(<<>>)
  /\ invoked = <<>>
  /\ created = 0
  /\ cls_tables = <<>>
  /\ cls_scalars = EmptyDict
  /\ calls = 0
  /\ received = <<>>
  /\ returned = <<>>
  /\ history = <<>>

\* _split_by_labels is not called.
NoText == text = <<>> /\ labels = <<>> /\ lookup = <<>>

\* No window is constructed.
NoWindow == management = [window |-> "none"] /\ creator = [window |-> "none"]

InitTable ==
  /\ NoCall
  /\ NoText
  /\ NoWindow
  /\ self \in {TableInterpreter(columns) : columns \in ColumnConfigs}
  /\ data_sheet_content \in RawContents(TableRows)

\* self.interpret_student_data_sheet_content(data_sheet_content) on a
\* TableInterpreter
TableCall ==
  /\ called = "none"
  /\ self.kind = "table"
  /\ called' = "table"
  /\ \E call \in {TableInterpreterCall(self, data_sheet_content)} :
       /\ outcome' = call.result
       /\ self' = call.self
       /\ data_sheet_content' = call.content
  /\ UNCHANGED <<invoked, created, cls_tables, cls_scalars,
                 calls, received, returned, history, text, labels, lookup,
                 management, creator>>

\* The caller notes what the TableInterpreter made of the tables and gives
\* the same tables to a ColumnTableStudentDataSheetTemplate of the same
\* columns: template._interpret_student_data_sheet_tables(tables)
ColumnTableCall ==
  /\ called = "table"
  /\ history' = Append(history, [self |-> self, outcome |-> outcome])
  /\ self' = ColumnTableStudentDataSheetTemplate(self.columns)
  /\ called' = "column_table"
  /\ outcome' = ColumnTableInterpretAll(self.columns, data_sheet_content.tables,
                                        1, <<>>)
  /\ UNCHANGED <<data_sheet_content, invoked, created, cls_tables, cls_scalars,
                 calls, received, returned, text, labels, lookup,
                 management, creator>>

\* The text of a sheet with the six labels, and of one that lacks the label
\* Data.
SheetTexts ==
  {
    <<"J", "A", "\n", "D", "a", "t", "e", ":", " ", "1", "\n", "T",
      "i", "m", "e", " ", "I", "N", ":", " ", "2", "\n", "T", "i", "m",
      "e", " ", "O", "U", "T", ":", " ", "3", "\n", "G", "o", "a", "l",
      ":", " ", "g", "\n", "M", "e", "a", "s", "u", "r", "e", ":", " ",
      "m", "\n", "D", "a", "t", "a", ":", "\n">>,
    <<"J", "A", "\n", "D", "a", "t", "e", ":", " ", "1", "\n", "T",
      "i", "m", "e", " ", "I", "N", ":", " ", "2", "\n", "T", "i", "m",
      "e", " ", "O", "U", "T", ":", " ", "3", "\n", "G", "o", "a", "l",
      ":", " ", "g", "\n", "M", "e", "a", "s", "u", "r", "e", ":", " ",
      "m", "\n">>
  }

\* What lines 86-93 make of each of these texts.
SheetContents == [sheet_text \in SheetTexts |-> TemplateLabelledContents(sheet_text)]

\* template.interpret_student_data_sheet(content) on the template
\* ColumnTableCall made, content holding the same tables and the text of a
\* sheet; and the same call made once again on the same content.
TemplateInterpretCall ==
  /\ called \in {"column_table", "template"}
  /\ \E sheet_text \in SheetTexts :
       /\ called = "template" => sheet_text = text
       /\ \E call \in {TemplateInterpretWithContents(
                          self.columns, SheetContents[sheet_text],
                          data_sheet_content.tables, cls_tables)} :
            /\ called' = IF called = "column_table" THEN "template"
                         ELSE "template_again"
            /\ text' = sheet_text
            /\ labels' = expected_meta_labels
            /\ outcome' = call.result
            /\ created' = call.created
            /\ cls_tables' = call.tables
            /\ returned' = IF call.result.status # "ok" THEN returned
                           ELSE Append(returned, [tables |-> call.tables,
                                                  scalars |-> cls_scalars])
  /\ UNCHANGED <<self, data_sheet_content, invoked, cls_scalars, calls,
                 received, history, lookup, management, creator>>

NextTable == TableCall \/ ColumnTableCall \/ TemplateInterpretCall

SpecTable == InitTable /\ [][NextTable]_vars

----------------------------------------------------------------------------
(* Inputs of the Running Tally Interpreter *)

CellY == <<"Y">>
CellN == <<"N">>
CellYN == <<"Y", "N">>
CellEmpty == <<>>

TallyRows ==
  {<<CellY, CellN>>, <<CellYN, CellEmpty, CellN>>, <<CellEmpty, CellEmpty>>}

TallyConfigs ==
  {RunningTallyInterpreter(CHOICE, <<CellY, CellN>>),
   RunningTallyInterpreter(CHOICE, <<CellY>>),
   RunningTallyInterpreter(INT, <<>>)}

InitTally ==
  /\ NoCall
  /\ NoText
  /\ NoWindow
  /\ self \in TallyConfigs
  /\ data_sheet_content \in RawContents(TallyRows)

\* self.interpret_student_data_sheet_content(data_sheet_content) on a
\* RunningTallyInterpreter
TallyCall ==
  /\ called = "none"
  /\ self.kind = "running_tally"
  /\ called' = "running_tally"
  /\ \E call \in {TallyInterpreterCall(self, data_sheet_content)} :
       /\ outcome' = call.result
       /\ self' = call.self
       /\ data_sheet_content' = call.content
  /\ UNCHANGED <<invoked, created, cls_tables, cls_scalars,
                 calls, received, returned, history, text, labels, lookup,
                 management, creator>>

SpecTally == InitTally /\ [][TallyCall]_vars

----------------------------------------------------------------------------
(* Inputs of the Simple Form Interpreter *)

FormLabels == {"Student Key", "Total", "Notes"}

FormValues == {"1", "2"}

FormData(Labels) == UNION {[keys -> FormValues] : keys \in SUBSET Labels}

InitForm ==
  /\ NoCall
  /\ NoText
  /\ NoWindow
  /\ self \in {SimpleFormInterpreter(fields) : fields \in SUBSET FormLabels}
  /\ data_sheet_content \in
       {[form_data |-> form_data, tables |-> <<>>] : form_data \in FormData(FormLabels)}

\* self.interpret_student_data_sheet_content(data_sheet_content) on a
\* SimpleFormInterpreter
FormCall ==
  /\ called = "none"
  /\ self.kind = "simple_form"
  /\ called' = "simple_form"
  /\ \E call \in {FormInterpreterCall(self, data_sheet_content)} :
       /\ outcome' = call.result
       /\ self' = call.self
       /\ data_sheet_content' = call.content
  /\ UNCHANGED <<invoked, created, cls_tables, cls_scalars,
                 calls, received, returned, history, text, labels, lookup,
                 management, creator>>

SpecForm == InitForm /\ [][FormCall]_vars

----------------------------------------------------------------------------
(* Inputs of the Composite Interpreter *)

TableOfA == [columns |-> <<ColA>>, data |-> <<>>]
TableOfB == [columns |-> <<ColB>>, data |-> <<>>]

Templates ==
  {TableInterpreter(<<ColA>>),
   RunningTallyInterpreter(CHOICE, <<CellY, CellN>>),
   SimpleFormInterpreter({"Goal"}),
   FixedInterpreter(<<TableOfA>>, [name \in {"Total"} |-> "1"]),
   FixedInterpreter(<<TableOfB, TableOfA>>, [name \in {"Total", "Notes"} |-> "2"])}

CompleteForms ==
  {[label \in {RequiredLabels[k] : k \in 1..Len(RequiredLabels)} |-> label],
   [label \in {RequiredLabels[k] : k \in 1..Len(RequiredLabels)} \cup {"Notes"}
      |-> "x"]}

Restrict(d, keys) == [k \in keys |-> d[k]]

\* A complete form without one or without two of its required labels.
IncompleteForms ==
  LET form == CHOOSE f \in CompleteForms : "Notes" \notin DOMAIN f
  IN {Restrict(form, DOMAIN form \ {RequiredLabels[k]}) : k \in 1..Len(RequiredLabels)}
     \cup {Restrict(form, DOMAIN form \ {"Date", "Goal"})}

CompositeTables ==
  {<<>>,
   << <<<<ColA>>>>, <<<<CellY, CellN>>>> >>,
   << <<<<ColA, ColB>>, <<ColA, ColB>>>> >>}

CompositeContents ==
  {[form_data |-> form_data, tables |-> tables] :
     form_data \in CompleteForms, tables \in CompositeTables}
  \cup {[form_data |-> form_data, tables |-> << <<<<ColA>>>> >>] :
          form_data \in IncompleteForms}

\* The session_data_templates of a composite: none, one or two templates.
TemplateLists ==
  {<<>>} \cup {<<t>> : t \in Templates} \cup {<<t, u>> : t, u \in Templates}

NoContent == [form_data |-> EmptyDict, tables |-> <<>>]

Init ==
  /\ NoCall
  /\ NoText
  /\ NoWindow
  /\ self = StudentDataSheetInterpreter(<<>>)
  /\ data_sheet_content = NoContent

\* StudentDataSheetInterpreter(templates).interpret_student_data_sheet(content)
Interpret ==
  \E templates \in TemplateLists, content \in CompositeContents :
    /\ called = "none"
    /\ calls < MaxCalls
    /\ \E call \in {InterpretStudentDataSheet(
                       templates, content,
                       [tables |-> cls_tables, scalars |-> cls_scalars])} :
       /\ calls' = calls + 1
       /\ called' = "composite"
       /\ self' = StudentDataSheetInterpreter(templates)
       /\ data_sheet_content' = call.content
       /\ outcome' = call.result
       /\ invoked' = call.invoked
       /\ received' = call.received
       /\ created' = call.created
       /\ cls_tables' = call.store.tables
       /\ cls_scalars' = call.store.scalars
       /\ returned' = IF call.result.status # "ok" THEN returned
                      ELSE Append(returned, [tables |-> call.store.tables,
                                             scalars |-> call.store.scalars])
       /\ UNCHANGED <<history, text, labels, lookup,
                 management, creator>>

\* The caller is done with what the last call gave it and is ready for the
\* next sheet; the class attributes stay as the call left them.
Finish ==
  /\ called = "composite"
  /\ called' = "none"
  /\ self' = StudentDataSheetInterpreter(<<>>)
  /\ data_sheet_content' = NoContent
  /\ outcome' = Ok(<<>>)
  /\ invoked' = <<>>
  /\ received' = <<>>
  /\ created' = 0
  /\ UNCHANGED <<cls_tables, cls_scalars, calls, returned, history, text, labels, lookup,
                 management, creator>>

Next == Interpret \/ Finish

Spec == Init /\ [][Next]_vars

----------------------------------------------------------------------------
(* Interpreters called one after another on one raw content *)

\* The interpreters the caller has constructed, each an object of its own:
\* id tells the objects apart, whatever becomes of their attributes.
Siblings ==
  {[id |-> 1] @@ TableInterpreter(<<ColA>>),
   [id |-> 2] @@ TableInterpreter(<<>>),
   [id |-> 3] @@ RunningTallyInterpreter(CHOICE, <<CellY, CellN>>),
   [id |-> 4] @@ SimpleFormInterpreter({"Goal"}),
   [id |-> 5] @@ StudentDataSheetInterpreter(<<TableInterpreter(<<>>),
                                               RunningTallyInterpreter(INT, <<>>)>>)}

\* The object the caller holds for this interpreter, when these calls have
\* ended: as the last call made on it left it, and as it was constructed
\* when none was made.
LatestInstance(sibling, ended) ==
  LET made == {i \in 1..Len(ended) : ended[i].self.id = sibling.id}
  IN IF made = {} THEN sibling
     ELSE ended[CHOOSE i \in made : \A j \in made : j <= i].self

SiblingContents ==
  {[form_data |-> form, tables |-> tables] :
     form \in {EmptyDict} \cup CompleteForms, tables \in CompositeTables}

InitSiblings ==
  /\ NoCall
  /\ NoText
  /\ NoWindow
  /\ self \in Siblings
  /\ data_sheet_content \in SiblingContents

\* self.interpret_student_data_sheet(data_sheet_content) on a
\* StudentDataSheetInterpreter
InterpretGiven ==
  /\ called = "none"
  /\ self.kind = "composite"
  /\ \E call \in {InterpretStudentDataSheet(
                     self.session_data_templates, data_sheet_content,
                     [tables |-> cls_tables, scalars |-> cls_scalars])} :
       /\ calls' = calls + 1
       /\ called' = "composite"
       /\ outcome' = call.result
       /\ invoked' = call.invoked
       /\ received' = call.received
       /\ created' = call.created
       /\ cls_tables' = call.store.tables
       /\ cls_scalars' = call.store.scalars
       /\ returned' = IF call.result.status # "ok" THEN returned
                      ELSE Append(returned, [tables |-> call.store.tables,
                                             scalars |-> call.store.scalars])
       /\ data_sheet_content' = call.content
  /\ UNCHANGED <<self, history, text, labels, lookup,
                 management, creator>>

\* The caller notes the call that ended and turns to one of its
\* interpreters, one more time or for the first time, to call it on the same
\* content object.
Select ==
  /\ called # "none"
  /\ Len(history) < MaxCalls
  /\ history' = Append(history, [self |-> self, outcome |-> outcome])
  /\ called' = "none"
  /\ \E sibling \in Siblings : self' = LatestInstance(sibling, history')
  /\ outcome' = Ok(<<>>)
  /\ invoked' = <<>>
  /\ received' = <<>>
  /\ created' = 0
  /\ UNCHANGED <<data_sheet_content, cls_tables, cls_scalars, calls, returned,
                 text, labels, lookup,
                 management, creator>>

NextSiblings == TableCall \/ TallyCall \/ FormCall \/ InterpretGiven \/ Select

SpecSiblings == InitSiblings /\ [][NextSiblings]_vars

----------------------------------------------------------------------------
(* Inputs of _split_by_labels *)

\* The labels are "A" and "B"; "J" is a letter of no label.
TextChars == {"J", " ", ":", "A", "B"}

Texts == SeqsUpTo(TextChars, MaxTextLen)

\* A label that begins where the label "A" begins.
ColAColon == <<"A", ":">>

LabelLists ==
  {<<>>, <<ColA>>, <<ColB>>, <<ColA, ColB>>, <<ColB, ColA>>, <<ColA, ColAColon>>}

InitSplit ==
  /\ NoCall
  /\ self = StudentDataSheetInterpreter(<<>>)
  /\ data_sheet_content = NoContent
  /\ text \in Texts
  /\ labels \in LabelLists
  /\ lookup = <<>>
  /\ NoWindow

\* self._split_by_labels(text, labels)
SplitCall ==
  /\ called = "none"
  /\ called' = "split_by_labels"
  /\ outcome' = SplitByLabels(text, labels)
  /\ UNCHANGED <<self, data_sheet_content, invoked, created, cls_tables, cls_scalars,
                 calls, received, returned, history, text, labels, lookup,
                 management, creator>>

\* The labels _get_labelled_content is asked for.
LookupLabels == {ColA, ColLowerA, ColB, student_key}

\* self._get_labelled_content(text_by_label, lookup) on the mapping that
\* _split_by_labels returned
GetLabelledContentCall ==
  /\ called = "split_by_labels"
  /\ outcome.status = "ok"
  /\ \E lbl \in LookupLabels :
       /\ lookup' = lbl
       /\ outcome' = GetLabelledContent(outcome.value, lbl)
  /\ called' = "get_labelled_content"
  /\ UNCHANGED <<self, data_sheet_content, invoked, created, cls_tables, cls_scalars,
                 calls, received, returned, history, text, labels,
                 management, creator>>

NextSplit == SplitCall \/ GetLabelledContentCall

SpecSplit == InitSplit /\ [][NextSplit]_vars

----------------------------------------------------------------------------
(* template_manager/interpreter_configs.py *)

\* InterpreterConfig.name of the configurations of lines 226-230, in order.
InterpreterConfigNames ==
  <<"Table Interpreter", "Running Tally Interpreter", "Simple Form Interpreter">>

\* The key under which the get_config of a configuration form gives its items.
ConfigKey(name) ==
  CASE name = "Table Interpreter" -> "column_names"
    [] name = "Running Tally Interpreter" -> "tally_characters"
    [] OTHER -> "field_names"

\* create_config_form: a new frame, not put on the grid, with an empty listbox.
CreateConfigForm(name) == [name |-> name, items |-> <<>>, gridded |-> FALSE]

\* form['get_config'](): the items of the listbox of this form.
GetConfig(form) == [key \in {ConfigKey(form.name)} |-> form.items]

\* _add_config_item(listbox, entry_var) on a form, entry_var holding typed:
\* an empty item and an item the listbox has are answered with a warning.
AddConfigItemTo(form, typed) ==
  LET item == Strip(typed)
  IN IF item # <<>> /\ ~Contains(form.items, item)
     THEN [form EXCEPT !.items = Append(@, item)]
     ELSE form

\* list.pop(index) and listbox.delete(index): the list without the item at
\* index, counted from 0.
WithoutItem(list, index) ==
  SubSeq(list, 1, index) \o SubSeq(list, index + 2, Len(list))

\* _remove_config_item(listbox) on a form whose listbox has this selection.
RemoveConfigItemFrom(form, selection) ==
  IF selection # <<>> THEN [form EXCEPT !.items = WithoutItem(@, selection[1])]
  ELSE form

----------------------------------------------------------------------------
(* template_manager/template_creator_window.py *)
(* A TemplateCreatorWindow is a record: window ("open" or "destroyed"),   *)
(* name_var, file_location_var, description_text, interpreters,           *)
(* interpreters_listbox (the items it shows), interpreter_type_var, forms *)
(* (every configuration form created, in order of creation), config_widgets *)
(* (for each type the number of its form in forms), raised (the exception *)
(* the last handler let escape), create_dto (the DTO of the template it   *)
(* created), save_callback_calls and dialog: "Success" while _on_create  *)
(* waits in its message box, the template stored and save_callback not    *)
(* yet called, "Browse" while _browse_file waits in its file dialog, ""   *)
(* when neither waits.  The other dialogs of messagebox have no change of *)
(* state on one side of them.                                             *)

\* _setup_interpreter_configs: a new form for every configuration, and
\* config_widgets made anew to hold these.
SetupInterpreterConfigs(w) ==
  [w EXCEPT
     !.forms = @ \o [i \in 1..Len(InterpreterConfigNames) |->
                       CreateConfigForm(InterpreterConfigNames[i])],
     !.config_widgets =
        [name \in {InterpreterConfigNames[i] : i \in 1..Len(InterpreterConfigNames)}
           |-> Len(w.forms) + ListIndex(InterpreterConfigNames, name)]]

\* _show_config_for_type: grid_remove on the frame of every form of
\* config_widgets, then grid on the one of interpreter_type.
ShowConfigForType(w, interpreter_type) ==
  [w EXCEPT
     !.forms =
        [f \in DOMAIN @ |->
           IF \E name \in DOMAIN w.config_widgets : w.config_widgets[name] = f
           THEN [@[f] EXCEPT !.gridded =
                   /\ interpreter_type \in DOMAIN w.config_widgets
                   /\ w.config_widgets[interpreter_type] = f]
           ELSE @[f]]]

\* _create_interpreters_field, lines 130-152
CreateInterpretersField(w) ==
  ShowConfigForType(
    SetupInterpreterConfigs(
      [w EXCEPT !.interpreters_listbox = <<>>,
                !.interpreter_type_var = InterpreterConfigNames[1]]),
    InterpreterConfigNames[1])

\* TemplateCreatorWindow.__init__
TemplateCreatorWindow(save_callback) ==
  SetupInterpreterConfigs(
    CreateInterpretersField(
      [window |-> "open",
       save_callback |-> save_callback,
       name_var |-> <<>>,
       file_location_var |-> <<>>,
       description_text |-> <<>>,
       interpreters |-> <<>>,
       interpreters_listbox |-> <<>>,
       interpreter_type_var |-> "",
       forms |-> <<>>,
       config_widgets |-> EmptyDict,
       raised |-> "",
       create_dto |-> <<>>,
       save_callback_calls |-> 0,
       dialog |-> ""]))

\* The configuration form the user sees and works on: of the frames put on
\* the one grid cell of config_frame, the one created last, which Tk stacks
\* above the others.  0 when no frame is shown.
ShownForm(w) ==
  IF \A f \in DOMAIN w.forms : ~w.forms[f].gridded THEN 0
  ELSE CHOOSE f \in DOMAIN w.forms :
         /\ w.forms[f].gridded
         /\ \A g \in DOMAIN w.forms : w.forms[g].gridded => g <= f

\* _update_interpreters_list left out: the listbox keeps what it showed.
KeepInterpretersList(w) == w

\* _update_interpreters_list
UpdateInterpretersList(w) == [w EXCEPT !.interpreters_listbox = w.interpreters]

\* _add_interpreter
AddInterpreterTo(w) ==
  LET interpreter_type == w.interpreter_type_var
  IN IF interpreter_type # "" /\ ~Contains(w.interpreters, interpreter_type)
     THEN UpdateInterpretersList(
            [w EXCEPT !.interpreters = Append(@, interpreter_type),
                      !.raised = ""])
     ELSE [w EXCEPT !.raised = ""]

\* _remove_interpreter, the listbox having this curselection()
RemoveInterpreterFrom(w, selection) ==
  IF selection # <<>>
  THEN LET index == selection[1]
       IN IF index >= Len(w.interpreters)
          THEN [w EXCEPT !.raised = "IndexError"]
          ELSE UpdateInterpretersList(
                 [w EXCEPT !.interpreters = WithoutItem(@, index),
                           !.raised = ""])
  ELSE [w EXCEPT !.raised = ""]

\* _validate_form with the fields compared as they were typed.
ValidateFormUntrimmed(w) ==
  IF w.name_var = <<>> THEN "Template name is required."
  ELSE IF w.file_location_var = <<>> THEN "File location is required."
  ELSE IF w.interpreters = <<>> THEN "At least one interpreter must be added."
  ELSE ""

\* _validate_form: the message of the error shown, "" when the form is valid.
ValidateForm(w) ==
  IF Strip(w.name_var) = <<>> THEN "Template name is required."
  ELSE IF Strip(w.file_location_var) = <<>> THEN "File location is required."
  ELSE IF w.interpreters = <<>> THEN "At least one interpreter must be added."
  ELSE ""

\* _create_configured_interpreters
CreateConfiguredInterpreters(w) ==
  [k \in 1..Len(w.interpreters) |->
     [type |-> w.interpreters[k],
      configuration |->
        IF w.interpreters[k] \in DOMAIN w.config_widgets
        THEN GetConfig(w.forms[w.config_widgets[w.interpreters[k]]])
        ELSE EmptyDict]]

\* TemplateCreateDto(name=..., file_location=..., configured_interpreter=...)
TemplateCreateDto(name, file_location, configured_interpreter) ==
  [name |-> name, file_location |-> file_location,
   configured_interpreter |-> configured_interpreter]

\* template_store.create_template(create_dto) when it does not raise: the
\* store has one more template, with the name of the DTO.
CreateTemplate(template_store, create_dto) == Append(template_store, create_dto.name)

----------------------------------------------------------------------------
(* template_manager/template_management_window.py *)
(* A DataSheetTemplateManagementWindow is a record: window, close_callback *)
(* ("None" when none was given), template_store (the names of the         *)
(* templates in the store), templates_treeview (the names it lists),      *)
(* close_events and close_callback_calls (how many close events came, how *)
(* often the callback was called), raised (the exception the last handler *)
(* let escape) and creators_opened.                                       *)

\* _populate_templates_list
PopulateTemplatesList(m) == [m EXCEPT !.templates_treeview = m.template_store]

\* DataSheetTemplateManagementWindow.__init__
DataSheetTemplateManagementWindow(template_store, close_callback) ==
  PopulateTemplatesList(
    [window |-> "open",
     close_callback |-> close_callback,
     template_store |-> template_store,
     templates_treeview |-> <<>>,
     close_events |-> 0,
     close_callback_calls |-> 0,
     raised |-> "",
     creators_opened |-> 0])

\* _on_template_saved
OnTemplateSaved(m) == PopulateTemplatesList(m)

\* _get_selected_template: the number of the template of the store that the
\* selected row of the treeview stands for, 0 for None; the rows stand for
\* the templates by their position.
GetSelectedTemplate(m, selection) ==
  IF selection = <<>> THEN 0
  ELSE IF selection[1] + 1 \in 1..Len(m.template_store)
          /\ m.template_store[selection[1] + 1]
               = m.templates_treeview[selection[1] + 1]
       THEN selection[1] + 1
       ELSE 0

\* template_store.delete_template(template.id), when it returns True
DeleteTemplate(template_store, template) == WithoutItem(template_store, template - 1)

\* _on_delete_template with this selection in the treeview; answer is what
\* the user answers when asked to confirm, deleted what delete_template
\* returns.
OnDeleteTemplateHandler(m, selection, answer, deleted) ==
  LET template == GetSelectedTemplate(m, selection)
  IN IF template = 0 \/ ~answer \/ ~deleted THEN [m EXCEPT !.raised = ""]
     ELSE PopulateTemplatesList(
            [m EXCEPT !.template_store = DeleteTemplate(@, template),
                      !.raised = ""])

\* _on_close: self.close_callback() is called whatever close_callback is.
OnCloseHandler(m) ==
  IF m.close_callback = "None"
  THEN [m EXCEPT !.close_events = @ + 1, !.raised = "TypeError"]
  ELSE [m EXCEPT !.close_events = @ + 1, !.close_callback_calls = @ + 1,
                 !.raised = ""]

----------------------------------------------------------------------------
(* template_creator_window.py: _browse_file, _on_create and _on_cancel *)

\* _on_create with save_callback called before the template is created.
OnCreateNotifyingFirst(w, m, create_ok) ==
  IF ValidateForm(w) # ""
  THEN [creator |-> [w EXCEPT !.raised = ""], management |-> m]
  ELSE LET create_dto == TemplateCreateDto(Strip(w.name_var),
                                           Strip(w.file_location_var),
                                           CreateConfiguredInterpreters(w))
           notified == OnTemplateSaved(m)
       IN IF ~create_ok
          THEN [creator |-> [w EXCEPT !.save_callback_calls = @ + 1,
                                      !.raised = ""],
                management |-> notified]
          ELSE [creator |-> [w EXCEPT !.create_dto = create_dto,
                                      !.save_callback_calls = @ + 1,
                                      !.raised = "",
                                      !.dialog = "Success"],
                management |->
                  [notified EXCEPT !.template_store = CreateTemplate(@, create_dto)]]

\* _on_create up to the message box of line 272, in which it waits for the
\* user while events are served; create_ok tells whether
\* template_store.create_template returns or raises, which ends the handler
\* in the except clause.
OnCreateHandler(w, m, create_ok) ==
  IF ValidateForm(w) # ""
  THEN [creator |-> [w EXCEPT !.raised = ""], management |-> m]
  ELSE LET create_dto == TemplateCreateDto(Strip(w.name_var),
                                           Strip(w.file_location_var),
                                           CreateConfiguredInterpreters(w))
       IN IF ~create_ok
          THEN [creator |-> [w EXCEPT !.raised = ""], management |-> m]
          ELSE [creator |-> [w EXCEPT !.create_dto = create_dto,
                                      !.raised = "",
                                      !.dialog = "Success"],
                management |->
                  [m EXCEPT !.template_store = CreateTemplate(@, create_dto)]]

\* _on_create from the return of the message box on, lines 274-279:
\* save_callback, when there is one, and window.destroy().
OnCreateAfterDialog(w, m) ==
  [creator |->
     [w EXCEPT !.dialog = "",
               !.save_callback_calls =
                  IF w.save_callback # "None" THEN @ + 1 ELSE @,
               !.window = "destroyed"],
   management |->
     IF w.save_callback # "None" THEN OnTemplateSaved(m) ELSE m]

\* _browse_file from the return of the file dialog on, lines 207-208.
BrowseFileAfterDialog(w, filename) ==
  [w EXCEPT !.dialog = "",
            !.file_location_var = IF filename # <<>> THEN filename ELSE @]

\* _on_cancel; answer is what the user answers when asked to confirm.
OnCancelHandler(w, answer) ==
  LET has_changes == \/ Strip(w.name_var) # <<>>
                     \/ Strip(w.file_location_var) # <<>>
                     \/ Strip(w.description_text) # <<>>
                     \/ w.interpreters # <<>>
  IN IF has_changes /\ ~answer
     THEN [w EXCEPT !.raised = ""]
     ELSE [w EXCEPT !.raised = "", !.window = "destroyed"]

----------------------------------------------------------------------------
(* The windows at work *)

\* What the user types into the entries of the creator window; the
\* description, which _on_cancel alone reads, is left empty.
NamesTyped == {<<" ">>, <<"T">>}

FileLocationsTyped == {<<" ">>, <<"f">>}

ItemsTyped == {<<" ">>, <<"x", " ">>}

interpreter_vars ==
  <<called, self, data_sheet_content, outcome, invoked, created, cls_tables,
    cls_scalars, calls, received, returned, history, text, labels, lookup>>

\* DataSheetTemplateManagementWindow(template_store, root, close_callback)
\* on an empty store, with and without a close_callback.
InitWindows ==
  /\ NoCall
  /\ NoText
  /\ self = StudentDataSheetInterpreter(<<>>)
  /\ data_sheet_content = NoContent
  /\ management \in {DataSheetTemplateManagementWindow(<<>>, close_callback) :
                       close_callback \in {"None", "quit"}}
  /\ creator = [window |-> "none"]

CreatorOpen == creator.window = "open"

\* The creator window takes the user's keys and clicks: it is open and no
\* dialog holds the grab.
CreatorIdle == CreatorOpen /\ creator.dialog = ""

\* A handler of the creator window waits in its dialog, which holds the grab
\* whether the creator window is still there or not.
DialogUp == creator.window # "none" /\ creator.dialog # ""

\* A close event of the management window: the Close button, or
\* WM_DELETE_WINDOW, which the window manager sends whoever holds the grab.
OnClose ==
  /\ management.window = "open"
  /\ management.close_events < MaxCloses
  /\ management' = OnCloseHandler(management)
  /\ UNCHANGED creator
  /\ UNCHANGED interpreter_vars

\* The Delete Selected button, with a row of the treeview selected or none:
\* _on_delete_template
OnDeleteTemplate ==
  /\ management.window = "open"
  /\ ~CreatorOpen
  /\ ~DialogUp
  /\ \E selection \in {<<>>} \cup
          {<<k>> : k \in 0..(Len(management.templates_treeview) - 1)},
        answer \in BOOLEAN, deleted \in BOOLEAN :
       management' = OnDeleteTemplateHandler(management, selection, answer, deleted)
  /\ UNCHANGED creator
  /\ UNCHANGED interpreter_vars

\* _on_create_template: the Create New Template button
OnCreateTemplate ==
  /\ management.window = "open"
  /\ ~CreatorOpen
  /\ ~DialogUp
  /\ management.creators_opened < MaxWindows
  /\ creator' = TemplateCreatorWindow("_on_template_saved")
  /\ management' = [management EXCEPT !.creators_opened = @ + 1, !.raised = ""]
  /\ UNCHANGED interpreter_vars

\* The user types a template name.
TypeName ==
  /\ CreatorIdle
  /\ \E typed \in NamesTyped : creator' = [creator EXCEPT !.name_var = typed]
  /\ UNCHANGED management
  /\ UNCHANGED interpreter_vars

\* The user types a file location.
TypeFileLocation ==
  /\ CreatorIdle
  /\ \E typed \in FileLocationsTyped :
       creator' = [creator EXCEPT !.file_location_var = typed]
  /\ UNCHANGED management
  /\ UNCHANGED interpreter_vars

\* The Browse button: _browse_file up to the file dialog of line 199, in
\* which it waits for the user while events are served.
BrowseFile ==
  /\ CreatorIdle
  /\ creator' = [creator EXCEPT !.dialog = "Browse", !.raised = ""]
  /\ UNCHANGED management
  /\ UNCHANGED interpreter_vars

\* The user closes the file dialog, which gives a file name, or "" when it
\* is cancelled: _browse_file goes on from line 207, whatever has become of
\* the window meanwhile, for file_location_var outlives it.
BrowseDialogClosed ==
  /\ DialogUp
  /\ creator.dialog = "Browse"
  /\ \E filename \in {<<>>, <<"f">>} :
       creator' = BrowseFileAfterDialog(creator, filename)
  /\ UNCHANGED management
  /\ UNCHANGED interpreter_vars

\* The user picks a type in the combobox: _on_interpreter_type_changed
OnInterpreterTypeChanged ==
  /\ CreatorIdle
  /\ \E selected_type \in {InterpreterConfigNames[i] :
                            i \in 1..Len(InterpreterConfigNames)} :
       creator' = ShowConfigForType(
                    [creator EXCEPT !.interpreter_type_var = selected_type,
                                    !.raised = ""],
                    selected_type)
  /\ UNCHANGED management
  /\ UNCHANGED interpreter_vars

\* The user types an item into the entry of the form shown and presses its
\* Add button: _add_config_item
AddConfigItem ==
  /\ CreatorIdle
  /\ ShownForm(creator) # 0
  /\ \E typed \in ItemsTyped :
       \E added \in {AddConfigItemTo(creator.forms[ShownForm(creator)], typed)} :
         creator' = [creator EXCEPT !.forms[ShownForm(creator)] = added,
                                    !.raised = ""]
  /\ UNCHANGED management
  /\ UNCHANGED interpreter_vars

\* The user presses Remove on the form shown, with an item of its listbox
\* selected or none: _remove_config_item
RemoveConfigItem ==
  /\ CreatorIdle
  /\ ShownForm(creator) # 0
  /\ \E selection \in {<<>>} \cup
          {<<k>> : k \in 0..(Len(creator.forms[ShownForm(creator)].items) - 1)} :
       \E removed \in {RemoveConfigItemFrom(creator.forms[ShownForm(creator)],
                                            selection)} :
         creator' = [creator EXCEPT !.forms[ShownForm(creator)] = removed,
                                    !.raised = ""]
  /\ UNCHANGED management
  /\ UNCHANGED interpreter_vars

\* The Add Interpreter button: _add_interpreter
AddInterpreter ==
  /\ CreatorIdle
  /\ creator' = AddInterpreterTo(creator)
  /\ UNCHANGED management
  /\ UNCHANGED interpreter_vars

\* The Remove Selected button with this selection in the interpreters
\* listbox: _remove_interpreter
RemoveInterpreterWith(selection) ==
  /\ CreatorIdle
  /\ creator' = RemoveInterpreterFrom(creator, selection)
  /\ UNCHANGED management
  /\ UNCHANGED interpreter_vars

\* The Remove Selected button, with an item of the interpreters listbox
\* selected or none.
RemoveInterpreter ==
  /\ CreatorIdle
  /\ \E selection \in {<<>>} \cup
          {<<k>> : k \in 0..(Len(creator.interpreters_listbox) - 1)} :
       RemoveInterpreterWith(selection)

\* The Create Template button or the Return key, create_template returning
\* (create_ok) or raising: _on_create
OnCreateWith(create_ok) ==
  /\ CreatorIdle
  /\ \E done \in {OnCreateHandler(creator, management, create_ok)} :
       /\ creator' = done.creator
       /\ management' = done.management
  /\ UNCHANGED interpreter_vars

OnCreate == \E create_ok \in BOOLEAN : OnCreateWith(create_ok)

\* The user closes the message box that tells of the success: _on_create
\* goes on from line 274, whatever has become of the window meanwhile.
OnCreateDialogClosed ==
  /\ DialogUp
  /\ creator.dialog = "Success"
  /\ \E done \in {OnCreateAfterDialog(creator, management)} :
       /\ creator' = done.creator
       /\ management' = done.management
  /\ UNCHANGED interpreter_vars

\* WM_DELETE_WINDOW for the creator window, which the window manager sends
\* whoever holds the grab: _setup_window sets no handler for it, so Tk
\* destroys the window, and a handler that waits in its dialog goes on
\* waiting.
CreatorWindowDeleted ==
  /\ CreatorOpen
  /\ creator' = [creator EXCEPT !.window = "destroyed", !.raised = ""]
  /\ UNCHANGED management
  /\ UNCHANGED interpreter_vars

\* The Cancel button: _on_cancel
OnCancel ==
  /\ CreatorIdle
  /\ \E answer \in BOOLEAN : creator' = OnCancelHandler(creator, answer)
  /\ UNCHANGED management
  /\ UNCHANGED interpreter_vars

NextWindows ==
  \/ OnClose
  \/ OnDeleteTemplate
  \/ OnCreateTemplate
  \/ TypeName
  \/ TypeFileLocation
  \/ BrowseFile
  \/ BrowseDialogClosed
  \/ OnInterpreterTypeChanged
  \/ AddConfigItem
  \/ RemoveConfigItem
  \/ AddInterpreter
  \/ RemoveInterpreter
  \/ OnCreate
  \/ OnCreateDialogClosed
  \/ CreatorWindowDeleted
  \/ OnCancel

SpecWindows == InitWindows /\ [][NextWindows]_vars

----------------------------------------------------------------------------
(* Properties of the Section Interpreters *)

raw_tables == data_sheet_content.tables

HeaderHasAll(columns, table) ==
  /\ Len(table) > 0
  /\ \A i \in 1..Len(columns) : Contains(table[1], columns[i])

HeaderLacksSome(columns, table) ==
  /\ Len(table) > 0
  /\ \E i \in 1..Len(columns) : ~Contains(table[1], columns[i])

IsMissingColumn(result) ==
  result.status = "raise" /\ result.error = "MissingColumn"

\* Every data row has a cell at the header position of every configured column.
RowsReachColumns(columns, table) ==
  \A r \in 2..Len(table), i \in 1..Len(columns) :
    ListIndex(table[1], columns[i]) <= Len(table[r])

\* C2: when the header row of every raw table has all configured columns
\* (and the data rows hold the cells the claim speaks of),
\* the Table Interpreter returns, for each raw table, len(table) - 1 data
\* rows, and the Scalar of data row i under configured column C is TEXT-typed,
\* keyed by C and holds the raw cell at (i+1, header_index_of(C)).
C2_TableRowsHoldRawCells ==
  (called = "table" /\ \A k \in 1..Len(raw_tables) :
                         /\ HeaderHasAll(self.columns, raw_tables[k])
                         /\ RowsReachColumns(self.columns, raw_tables[k]))
  => /\ outcome.status = "ok"
     /\ Len(outcome.value.tables) = Len(raw_tables)
     /\ \A k \in 1..Len(raw_tables) :
          LET raw == raw_tables[k]
              data == outcome.value.tables[k].data
          IN /\ Len(data) = Len(raw) - 1
             /\ \A i \in 1..Len(data), c \in 1..Len(self.columns) :
                  LET scalar == data[i][self.columns[c]]
                  IN /\ scalar.type = TEXT
                     /\ scalar.key = self.columns[c]
                     /\ scalar.value =
                          raw[i + 1][ListIndex(raw[1], self.columns[c])]

\* C3 as claimed: the Table Interpreter fails with MissingColumn if and only
\* if some configured column is absent from row 0 of some raw table.
C3_MissingColumnIffAbsentAnywhere ==
  called = "table"
  => (IsMissingColumn(outcome)
      <=> \E k \in 1..Len(raw_tables) : HeaderLacksSome(self.columns, raw_tables[k]))

\* C3 amended: the Table Interpreter fails with MissingColumn if and only if
\* some raw table has a header row that lacks a configured column and every
\* raw table before it was interpreted without error; the error names the
\* column which, in configured order, is the first that the header of the
\* first such table lacks, whatever the data rows of that table and the
\* tables after it hold.
C3_MissingColumnIffFirstFailureLacksColumn ==
  called = "table"
  => /\ IsMissingColumn(outcome)
        <=> \E k \in 1..Len(raw_tables) :
              /\ HeaderLacksSome(self.columns, raw_tables[k])
              /\ \A j \in 1..(k - 1) :
                   TableInterpretSingle(self.columns, raw_tables[j]).status = "ok"
     /\ IsMissingColumn(outcome)
        => \E k \in 1..Len(raw_tables), i \in 1..Len(self.columns) :
             /\ HeaderLacksSome(self.columns, raw_tables[k])
             /\ \A j \in 1..(k - 1) :
                  TableInterpretSingle(self.columns, raw_tables[j]).status = "ok"
             /\ outcome.args = self.columns[i]
             /\ ~Contains(raw_tables[k][1], self.columns[i])
             /\ \A h \in 1..(i - 1) : Contains(raw_tables[k][1], self.columns[h])

\* A table whose header lacks both configured columns, although its data row
\* has them and the header has a column that differs from the first in case
\* only, raised MissingColumn for the first of the two.
C3_Witness ==
  /\ called = "table"
  /\ IsMissingColumn(outcome)
  /\ self.columns = <<ColA, ColB>>
  /\ raw_tables = << <<<<ColLowerA, ColSpaceA>>, <<ColA, ColB>>>> >>
  /\ outcome.args = ColA

RECURSIVE SumLen(_)
SumLen(cells) ==
  IF cells = <<>> THEN 0 ELSE Len(Head(cells)) + SumLen(Tail(cells))

RECURSIVE CharCount(_)
CharCount(rows) ==
  IF rows = <<>> THEN 0 ELSE SumLen(Head(rows)) + CharCount(Tail(rows))

\* C4: for every raw table the Running Tally Interpreter emits as many tally
\* rows as there are characters in all cells of all rows, row 0 included, and
\* the character at place p of cell c of row r is the value of the tally row
\* whose number is the count of characters before it in row-major order, plus
\* one.
C4_TallyRowsAreCellCharactersRowMajor ==
  called = "running_tally"
  => /\ outcome.status = "ok"
     /\ Len(outcome.value.tables) = Len(raw_tables)
     /\ \A k \in 1..Len(raw_tables) :
          LET raw == raw_tables[k]
              data == outcome.value.tables[k].data
          IN /\ Len(data) = CharCount(raw)
             /\ \A r \in 1..Len(raw) : \A c \in 1..Len(raw[r]) :
                  \A p \in 1..Len(raw[r][c]) :
                    LET n == CharCount(SubSeq(raw, 1, r - 1))
                               + SumLen(SubSeq(raw[r], 1, c - 1)) + p
                    IN data[n][tally_column_name].value = <<raw[r][c][p]>>

\* The table [["Y","N"],["YN","","N"]] gave the five tally rows Y, N, Y, N, N.
C4_Witness ==
  /\ called = "running_tally"
  /\ raw_tables = << <<<<CellY, CellN>>, <<CellYN, CellEmpty, CellN>>>> >>
  /\ outcome.status = "ok"
  /\ LET data == outcome.value.tables[1].data
     IN /\ Len(data) = 5
        /\ <<data[1][tally_column_name].value, data[2][tally_column_name].value,
             data[3][tally_column_name].value, data[4][tally_column_name].value,
             data[5][tally_column_name].value>>
           = <<CellY, CellN, CellY, CellN, CellN>>

\* C5: for any form_data mapping and any configured fields the Simple Form
\* Interpreter returns, without error, scalars whose keys are exactly the
\* configured fields that are keys of form_data, each with the form_data
\* value, and no tables.
C5_FormScalarsAreConfiguredFormData ==
  called = "simple_form"
  => /\ outcome.status = "ok"
     /\ outcome.value.tables = <<>>
     /\ DOMAIN outcome.value.scalars
          = self.fields \cap DOMAIN data_sheet_content.form_data
     /\ \A key \in DOMAIN outcome.value.scalars :
          outcome.value.scalars[key] = data_sheet_content.form_data[key]

\* C15: when the header row of every raw table has all configured columns,
\* the Table Interpreter fails with an index error exactly when some data row
\* has no cell at the header position of some configured column, and
\* otherwise (a row shorter than the header included) returns without error.
C15_IndexErrorIffRowTooShort ==
  (called = "table" /\ \A k \in 1..Len(raw_tables) :
                         HeaderHasAll(self.columns, raw_tables[k]))
  => /\ (outcome.status = "raise" /\ outcome.error = "IndexError")
        <=> \E k \in 1..Len(raw_tables) :
              ~RowsReachColumns(self.columns, raw_tables[k])
     /\ (\A k \in 1..Len(raw_tables) :
           RowsReachColumns(self.columns, raw_tables[k]))
        => outcome.status = "ok"

\* C16: when the Table Interpreter returns, it returns one table per raw
\* table, in input order (each with one data row per data row of its raw
\* table), each with the configured column list, in configured order, as its
\* columns, and no scalars.
C16_OneTablePerRawTableWithConfiguredColumns ==
  (called = "table" /\ outcome.status = "ok")
  => /\ Len(outcome.value.tables) = Len(raw_tables)
     /\ \A k \in 1..Len(raw_tables) :
          /\ outcome.value.tables[k].columns = self.columns
          /\ Len(outcome.value.tables[k].data) = Len(raw_tables[k]) - 1
     /\ outcome.value.scalars = EmptyDict

\* Two raw tables were interpreted whose header rows differ from each other
\* and from the configured columns, in order and in length.
C16_Witness ==
  /\ called = "table"
  /\ outcome.status = "ok"
  /\ self.columns = <<ColA, ColB>>
  /\ raw_tables = << <<<<ColB, ColB, ColA>>>>, <<<<ColA, ColB>>>> >>
  /\ outcome.value.tables[1].columns = <<ColA, ColB>>

\* The tally rows of the returned tables, all of them.
TallyRowsEmitted ==
  UNION {{outcome.value.tables[k].data[n] :
            n \in 1..Len(outcome.value.tables[k].data)} :
           k \in 1..Len(outcome.value.tables)}

\* C17: every row the Running Tally Interpreter emits is a record with the
\* single key "Tally", mapped to a Scalar with key "Tally", a value of
\* exactly one character, the configured tally_type as type and the
\* configured choice_options; a raw table gives one row per character of
\* its cells, so a cell of several characters gives several rows and an
\* empty cell none.
C17_TallyRowIsOneTallyScalar ==
  (called = "running_tally" /\ outcome.status = "ok")
  => /\ \A row \in TallyRowsEmitted :
          /\ DOMAIN row = {tally_column_name}
          /\ row[tally_column_name].key = tally_column_name
          /\ Len(row[tally_column_name].value) = 1
          /\ row[tally_column_name].type = self.tally_type
          /\ row[tally_column_name].choice_options = self.tally_choice_options
     /\ \A k \in 1..Len(outcome.value.tables) :
          Len(outcome.value.tables[k].data) = CharCount(raw_tables[k])

\* An interpreter configured with a type and options made three rows of the
\* row ["YN", "", "N"].
C17_Witness ==
  /\ called = "running_tally"
  /\ outcome.status = "ok"
  /\ self.tally_type = CHOICE
  /\ self.tally_choice_options = <<CellY, CellN>>
  /\ raw_tables = << <<<<CellYN, CellEmpty, CellN>>>> >>
  /\ Len(outcome.value.tables[1].data) = 3
  /\ outcome.value.tables[1].data[2][tally_column_name].value = CellN

\* C18: the Running Tally Interpreter never fails and skips no table: for
\* any raw tables it returns one table per raw table, in input order, each
\* with columns ["Tally"], a raw table without rows or with empty cells only
\* giving empty data, and no scalars.
C18_TallyReturnsOneTablePerRawTable ==
  called = "running_tally"
  => /\ outcome.status = "ok"
     /\ Len(outcome.value.tables) = Len(raw_tables)
     /\ \A k \in 1..Len(raw_tables) :
          /\ outcome.value.tables[k].columns = <<tally_column_name>>
          /\ Len(outcome.value.tables[k].data) = CharCount(raw_tables[k])
          /\ CharCount(raw_tables[k]) = 0 => outcome.value.tables[k].data = <<>>
     /\ outcome.value.scalars = EmptyDict

\* A table without rows, between them a table with letters, and a table of
\* empty cells were interpreted.
C18_Witness ==
  /\ called = "running_tally"
  /\ outcome.status = "ok"
  /\ Len(raw_tables) = 2
  /\ \E k \in 1..2 : raw_tables[k] = <<>>
  /\ \E k \in 1..2 : raw_tables[k] = << <<CellEmpty, CellEmpty>> >>
  /\ Len(outcome.value.tables) = 2

\* C19: every tally Scalar a Running Tally Interpreter configured with
\* tally_type CHOICE emits has a value that is one of the configured
\* choice_options, whatever the raw tables hold.
C19_ChoiceValueAmongOptions ==
  (called = "running_tally" /\ outcome.status = "ok" /\ self.tally_type = CHOICE)
  => \A row \in TallyRowsEmitted :
       Contains(row[tally_column_name].choice_options,
                row[tally_column_name].value)

\* C27: the TableInterpreter and the ColumnTableStudentDataSheetTemplate of
\* the same columns agree on every list of raw tables: one fails exactly
\* when the other does, and when they return, their tables have the same
\* columns and the same number of data rows, and the value of the Scalar of
\* a row under a column is the raw cell the older class stores there.
C27_TableInterpreterAgreesWithColumnTableTemplate ==
  called = "column_table"
  => LET new == history[1].outcome
         old == outcome
     IN /\ new.status = old.status
        /\ new.status = "ok"
           => /\ Len(new.value.tables) = Len(old.value)
              /\ \A k \in 1..Len(old.value) :
                   /\ new.value.tables[k].columns = old.value[k].columns
                   /\ Len(new.value.tables[k].data) = Len(old.value[k].data)
                   /\ \A i \in 1..Len(old.value[k].data) :
                        \A c \in DOMAIN old.value[k].data[i] :
                          new.value.tables[k].data[i][c].value
                            = old.value[k].data[i][c]

SectionCalls ==
  LET ended == IF called = "none" THEN history
               ELSE Append(history, [self |-> self, outcome |-> outcome])
  IN {ended[i] : i \in {j \in 1..Len(ended) : ended[j].self.kind # "composite"}}

----------------------------------------------------------------------------
(* Properties of the Composite Interpreter *)

templates_called == self.session_data_templates

form_data == data_sheet_content.form_data

RequiredLabelSet == {RequiredLabels[k] : k \in 1..Len(RequiredLabels)}

\* What the k-th template of the last call makes of the call's content.
Contribution(k) == InterpretContent(templates_called[k], data_sheet_content)

Returned == called = "composite" /\ outcome.status = "ok"

\* The tables of the first n contributions, one contribution after another.
RECURSIVE ContributedTables(_)
ContributedTables(n) ==
  IF n = 0 THEN <<>>
  ELSE ContributedTables(n - 1) \o Contribution(n).value.tables

ContributedScalarNames ==
  UNION {DOMAIN Contribution(k).value.scalars : k \in 1..Len(templates_called)}

\* C1: the DataSheet a composite call returns holds exactly the tables and
\* the scalars that this call's Section Interpreters contributed, nothing
\* left over from an earlier call.
C1_SheetHoldsOnlyThisCall ==
  Returned
  => /\ DataSheetTables(outcome.value) = ContributedTables(Len(templates_called))
     /\ DOMAIN DataSheetScalars(outcome.value) = ContributedScalarNames

\* C6: in the returned DataSheet a scalar name that Section Interpreters of
\* this call produced is mapped to the value of the latest of them in list
\* order.
C6_LastScalarWins ==
  Returned
  => \A k \in 1..Len(templates_called) :
       \A name \in DOMAIN Contribution(k).value.scalars :
         (\A later \in (k + 1)..Len(templates_called) :
            name \notin DOMAIN Contribution(later).value.scalars)
         => /\ name \in DOMAIN DataSheetScalars(outcome.value)
            /\ DataSheetScalars(outcome.value)[name]
                 = Contribution(k).value.scalars[name]

\* Two templates gave "Total" different values and one alone gave "Notes".
C6_Witness ==
  /\ Returned
  /\ Len(templates_called) = 2
  /\ "Total" \in DOMAIN Contribution(1).value.scalars
  /\ "Total" \in DOMAIN Contribution(2).value.scalars
  /\ Contribution(1).value.scalars["Total"] # Contribution(2).value.scalars["Total"]
  /\ "Notes" \in DOMAIN Contribution(1).value.scalars
  /\ "Notes" \notin DOMAIN Contribution(2).value.scalars
  /\ DataSheetScalars(outcome.value)["Total"] = Contribution(2).value.scalars["Total"]

\* C7: the tables of the returned DataSheet end with every table this call's
\* Section Interpreters produced, none dropped and none merged, interpreter
\* after interpreter in list order and, for one interpreter, in the order it
\* produced them.
C7_TablesConcatenatedInListOrder ==
  Returned
  => LET mine == ContributedTables(Len(templates_called))
         all == DataSheetTables(outcome.value)
     IN /\ Len(mine) <= Len(all)
        /\ SubSeq(all, Len(all) - Len(mine) + 1, Len(all)) = mine

\* A second call whose two templates produced three tables, two of them equal.
C7_Witness ==
  /\ Returned
  /\ calls = 2
  /\ Len(templates_called) = 2
  /\ Contribution(1).value.tables = <<TableOfB, TableOfA>>
  /\ Contribution(2).value.tables = <<TableOfA>>
  /\ Len(DataSheetTables(outcome.value)) > 3

\* C8: when a required label is absent from form_data the composite call
\* fails with the lookup error of an absent required label, having invoked no
\* Section Interpreter and constructed no DataSheet.
C8_MissingRequiredFieldFailsFirst ==
  (called = "composite" /\ RequiredLabelSet \ DOMAIN form_data # {})
  => /\ outcome.status = "raise"
     /\ outcome.error = "KeyError"
     /\ outcome.args[1] \in RequiredLabelSet \ DOMAIN form_data
     /\ invoked = <<>>
     /\ created = 0

\* A call with two templates on a form without "Goal" failed.
C8_Witness ==
  /\ called = "composite"
  /\ Len(templates_called) = 2
  /\ DOMAIN form_data = RequiredLabelSet \ {"Goal"}
  /\ outcome.status = "raise"

\* C9: when the required labels are present and some Section Interpreter
\* fails, the composite call raises what the first failing one in list order
\* raised, unchanged, the templates invoked are those up to and including it,
\* and nothing is returned.
C9_FirstFailurePropagates ==
  (/\ called = "composite"
   /\ RequiredLabelSet \subseteq DOMAIN form_data
   /\ \E k \in 1..Len(templates_called) : Contribution(k).status # "ok")
  => LET first == CHOOSE k \in 1..Len(templates_called) :
                    /\ Contribution(k).status # "ok"
                    /\ \A j \in 1..(k - 1) : Contribution(j).status = "ok"
     IN /\ outcome = Contribution(first)
        /\ outcome.status = "raise"
        /\ invoked = [j \in 1..first |-> j]

\* The first template failed with one error, the second would have failed
\* with another.
C9_Witness ==
  /\ called = "composite"
  /\ RequiredLabelSet \subseteq DOMAIN form_data
  /\ Len(templates_called) = 2
  /\ Contribution(1).status = "raise"
  /\ Contribution(2).status = "raise"
  /\ Contribution(1).error # Contribution(2).error
  /\ outcome.error = Contribution(1).error
  /\ invoked = <<1>>

\* C10: the returned DataSheet has student_key, date, time_in, time_out,
\* student_goal and measure equal to form_data under "Student Key", "Date",
\* "Time IN", "Time OUT", "Goal" and "Measure".
C10_SheetFieldsAreFormFields ==
  Returned
  => /\ outcome.value.student_key = form_data["Student Key"]
     /\ outcome.value.date = form_data["Date"]
     /\ outcome.value.time_in = form_data["Time IN"]
     /\ outcome.value.time_out = form_data["Time OUT"]
     /\ outcome.value.student_goal = form_data["Goal"]
     /\ outcome.value.measure = form_data["Measure"]

\* A sheet was returned for a form whose six required values all differ.
C10_Witness ==
  /\ Returned
  /\ \A a, b \in RequiredLabelSet : a # b => form_data[a] # form_data[b]
  /\ outcome.value.date = form_data["Date"]

\* C11: a StudentDataSheet that a composite call returned is never mutated
\* again: its tables and its scalars are, whatever calls were made since,
\* what they were when it was returned.
C11_ReturnedSheetNeverMutated ==
  \A d \in 1..Len(returned) :
    /\ DataSheetTables(returned[d]) = returned[d].tables
    /\ DataSheetScalars(returned[d]) = returned[d].scalars

\* The templates of the last call up to the first that fails, all of them
\* when none fails, none when a required label is absent.
InvokedUpTo ==
  IF ~(RequiredLabelSet \subseteq DOMAIN form_data) THEN 0
  ELSE IF \A k \in 1..Len(templates_called) : Contribution(k).status = "ok"
       THEN Len(templates_called)
  ELSE CHOOSE k \in 1..Len(templates_called) :
         /\ Contribution(k).status # "ok"
         /\ \A j \in 1..(k - 1) : Contribution(j).status = "ok"

\* C12 as claimed: in one composite call every configured Section
\* Interpreter is invoked exactly once, in list order, and each is passed
\* the raw content the call was given, whole.
C12_EveryTemplateInvokedOnceOnSameContent ==
  called = "composite"
  => /\ invoked = [k \in 1..Len(templates_called) |-> k]
     /\ received = [k \in 1..Len(templates_called) |-> data_sheet_content]

\* C12 amended: in one composite call the Section Interpreters invoked are
\* those up to and including the first that fails (all of them when none
\* fails, none when a required label is absent), each exactly once, in list
\* order, and each is passed the raw content the call was given, whole.
C12_TemplatesUpToFirstFailureInvokedOnceOnSameContent ==
  called = "composite"
  => /\ invoked = [k \in 1..InvokedUpTo |-> k]
     /\ received = [k \in 1..InvokedUpTo |-> data_sheet_content]

\* A call with two templates that both made tables of a content with tables
\* returned, and each of the two was passed that content.
C12_Witness ==
  /\ Returned
  /\ Len(templates_called) = 2
  /\ raw_tables # <<>>
  /\ Contribution(1).value.tables # <<>>
  /\ Contribution(2).value.tables # <<>>
  /\ invoked = <<1, 2>>
  /\ received = <<data_sheet_content, data_sheet_content>>

\* C26: a composite call that fails changes no state: the tables and the
\* scalars seen through every DataSheet returned before it, and in the
\* store they share, are after the failed call what they were before it.
C26_FailedCallChangesNoState ==
  [][(called' = "composite" /\ outcome'.status = "raise")
     => /\ cls_tables' = cls_tables
        /\ cls_scalars' = cls_scalars
        /\ returned' = returned
        /\ \A d \in 1..Len(returned) :
             /\ DataSheetTables(returned[d])' = DataSheetTables(returned[d])
             /\ DataSheetScalars(returned[d])' = DataSheetScalars(returned[d])]_vars

\* A DataSheet with tables and scalars had been returned, and the next call
\* failed in its second template after the first had made a table and a
\* scalar.
C26_Witness ==
  /\ called = "composite"
  /\ calls = 2
  /\ Len(returned) = 1
  /\ returned[1].tables # <<>>
  /\ returned[1].scalars # EmptyDict
  /\ outcome.status = "raise"
  /\ invoked = <<1, 2>>
  /\ Contribution(1).value.tables # <<>>
  /\ Contribution(1).value.scalars # EmptyDict

----------------------------------------------------------------------------
(* Properties of _split_by_labels *)

\* The positions of the expected labels that occur in the text.
FoundPositions ==
  {Find(text, labels[k]) : k \in 1..Len(labels)} \ {-1}

EarliestFound ==
  CHOOSE p \in FoundPositions : \A q \in FoundPositions : p <= q

\* The text from a found label to the next found label, or to the end.
FoundSpan(p) ==
  LET later == {q \in FoundPositions : q > p}
  IN Slice(text, p,
           IF later = {} THEN Len(text)
           ELSE CHOOSE q \in later : \A r \in later : q <= r)

\* C20: for any text and any list of expected labels of which some occur in
\* the text (each found label with its colon), the parser returns a mapping
\* whose student_key is the trimmed text before the earliest-positioned
\* found label.
C20_StudentKeyIsTextBeforeEarliestFoundLabel ==
  (/\ called = "split_by_labels"
   /\ FoundPositions # {}
   /\ \A p \in FoundPositions : Find(FoundSpan(p), <<":">>) # -1)
  => /\ outcome.status = "ok"
     /\ outcome.value[student_key].content_without_label
          = Strip(Slice(text, 0, EarliestFound))

\* Every expected label occurs in the text.
AllFound == \A k \in 1..Len(labels) : Find(text, labels[k]) # -1

\* No two expected labels begin at the same place of the text or are equal
\* up to case.
LabelsApart ==
  \A j, k \in 1..Len(labels) :
    j # k => /\ Find(text, labels[j]) # Find(text, labels[k])
             /\ LowerStr(labels[j]) # LowerStr(labels[k])

\* What comes after the first colon of str.
AfterFirstColon(str) == Slice(str, Find(str, <<":">>) + 1, Len(str))

\* C21: when every expected label occurs in the text (each at a place of
\* its own, with a colon before the label next by position), the parser
\* returns, and the
\* content_with_label of each label is the trimmed text from the first
\* occurrence of that label up to the first occurrence of the label next by
\* position, or up to the end of the text for the last one, whatever the
\* order of the expected list; these pieces of the text follow one another
\* from the earliest label to the end.
C21_SpanRunsToNextLabelByPosition ==
  /\ (called = "split_by_labels" /\ AllFound /\ labels # <<>> /\ LabelsApart
        /\ \A p \in FoundPositions : Find(FoundSpan(p), <<":">>) # -1)
     => outcome.status = "ok"
  /\ (called = "split_by_labels" /\ AllFound /\ LabelsApart
        /\ outcome.status = "ok")
     => \A k \in 1..Len(labels) :
          /\ LowerStr(labels[k]) \in DOMAIN outcome.value
          /\ outcome.value[LowerStr(labels[k])].label = labels[k]
          /\ outcome.value[LowerStr(labels[k])].content_with_label
               = Strip(FoundSpan(Find(text, labels[k])))

\* "JA:B:" was split by the expected list B, A: the span of A ends where B
\* begins.
C21_Witness ==
  /\ called = "split_by_labels"
  /\ outcome.status = "ok"
  /\ labels = <<ColB, ColA>>
  /\ text = <<"J", "A", ":", "B", ":">>
  /\ outcome.value[<<"a">>].content_with_label = <<"A", ":">>
  /\ outcome.value[<<"b">>].content_with_label = <<"B", ":">>

\* C22: the content_without_label of a span is the trimmed text after the
\* first colon of the span, later colons kept; when every expected label
\* occurs in the text, _get_labelled_content returns it for a label that is
\* an expected label up to case, and a span without a colon makes the parse
\* fail.
C22_ContentIsTextAfterFirstColon ==
  /\ (called = "split_by_labels" /\ outcome.status = "ok")
     => \A key \in DOMAIN outcome.value \ {student_key} :
          /\ Find(outcome.value[key].content_with_label, <<":">>) # -1
          /\ outcome.value[key].content_without_label
               = Strip(AfterFirstColon(outcome.value[key].content_with_label))
  /\ (called = "split_by_labels" /\ AllFound
        /\ \E p \in FoundPositions : Find(FoundSpan(p), <<":">>) = -1)
     => outcome.status = "raise"
  /\ (called = "get_labelled_content" /\ AllFound)
     => \A k \in 1..Len(labels) :
          LowerStr(labels[k]) = LowerStr(lookup)
          => outcome = Ok(Strip(AfterFirstColon(
                            Strip(FoundSpan(Find(text, labels[k]))))))

\* "A:J:J" was split and the content of A was asked for as "a": it is "J:J".
C22_Witness ==
  /\ called = "get_labelled_content"
  /\ text = <<"A", ":", "J", ":", "J">>
  /\ labels = <<ColA>>
  /\ lookup = ColLowerA
  /\ outcome = Ok(<<"J", ":", "J">>)

\* C23: when an expected label does not occur in the text the parser fails
\* with LabelNotFound and returns no mapping.
C23_UnfoundLabelFailsWithLabelNotFound ==
  (called = "split_by_labels" /\ ~AllFound)
  => /\ outcome.status = "raise"
     /\ outcome.error = "LabelNotFound"

----------------------------------------------------------------------------
(* Properties of the template windows *)

\* C24: a close event of a management window constructed without a
\* close_callback is handled without error, and a close_callback that was
\* given is called exactly once per close event.
C24_CloseCallbackIsOptional ==
  management.window = "open"
  => /\ (management.close_callback = "None" /\ management.close_events > 0)
        => management.raised = ""
     /\ management.close_callback # "None"
        => management.close_callback_calls = management.close_events

\* The trimmed name and the trimmed file location are not empty and an
\* interpreter has been added.
ValidForm(w) ==
  /\ Strip(w.name_var) # <<>>
  /\ Strip(w.file_location_var) # <<>>
  /\ w.interpreters # <<>>

\* C25: a template comes into the store only from a creator window whose
\* trimmed name and trimmed file location are not empty and to which an
\* interpreter has been added; a Create on any other form creates nothing,
\* does not call save_callback, not then and not later, and leaves the
\* window open.
C25_CreateOnlyFromValidForm ==
  [][/\ Len(management'.template_store) > Len(management.template_store)
        => (CreatorIdle /\ ValidForm(creator))
     /\ \A create_ok \in BOOLEAN :
          (OnCreateWith(create_ok) /\ ~ValidForm(creator))
          => /\ management' = management
             /\ creator'.window = "open"
             /\ creator'.dialog = ""
             /\ creator'.save_callback_calls = creator.save_callback_calls
             /\ creator'.create_dto = creator.create_dto]_vars

\* A form with an interpreter and a file location whose name is a blank,
\* and nothing in the store.
C25_Witness ==
  /\ CreatorOpen
  /\ creator.name_var = <<" ">>
  /\ creator.file_location_var = <<"f">>
  /\ creator.interpreters # <<>>
  /\ management.template_store = <<>>
  /\ creator.save_callback_calls = 0

\* C28: in an open creator window the interpreters list has no type twice
\* and the interpreters listbox shows that list, in its order; Remove
\* Selected with the listbox selection at index k takes the interpreter
\* shown at index k, and no other, off the list.
C28_ListboxShowsInterpreters ==
  /\ [](CreatorOpen
        => /\ \A j, k \in 1..Len(creator.interpreters) :
                j # k => creator.interpreters[j] # creator.interpreters[k]
           /\ creator.interpreters_listbox = creator.interpreters)
  /\ [][\A k \in 0..(Len(InterpreterConfigNames) - 1) :
          (CreatorOpen /\ k < Len(creator.interpreters_listbox)
             /\ RemoveInterpreterWith(<<k>>))
          => /\ creator'.interpreters = WithoutItem(creator.interpreters_listbox, k)
             /\ creator'.interpreters_listbox = creator'.interpreters]_vars

\* Two interpreters are listed, the one added first not the first of the
\* combobox.
C28_Witness ==
  /\ CreatorOpen
  /\ creator.interpreters = <<"Simple Form Interpreter", "Table Interpreter">>
  /\ creator.interpreters_listbox = creator.interpreters
  /\ creator.interpreter_type_var = "Running Tally Interpreter"

\* C29 as claimed: on a Create with a valid form, when create_template
\* returns, save_callback is called once, after the template was created,
\* and the window is destroyed after that: a creator window that has
\* created its template and is gone has called save_callback.
C29_DestroyedOnlyAfterNotifying ==
  (creator.window = "destroyed" /\ creator.create_dto # <<>>)
  => creator.save_callback_calls = 1

\* C29 amended: on a Create with a valid form, when create_template returns,
\* the template is in the store and the handler waits in the message box,
\* the window open and save_callback not called; when the box is closed
\* save_callback is called once (the list it refreshes shows the store) and
\* window.destroy() follows it, so that the window is destroyed then at the
\* latest: the window manager may have destroyed it while the box was up,
\* before save_callback was called.  save_callback is called at no other
\* step, so only after the template was created, and once for a window.
\* When create_template raises, save_callback is not called and the handler
\* leaves the window open with name, file location and interpreters as they
\* were.
C29_CreateNotifiesThenCloses ==
  /\ [][/\ \A create_ok \in BOOLEAN :
            (OnCreateWith(create_ok) /\ ValidForm(creator))
            => /\ creator'.save_callback_calls = creator.save_callback_calls
               /\ creator'.window = "open"
               /\ creator'.name_var = creator.name_var
               /\ creator'.file_location_var = creator.file_location_var
               /\ creator'.interpreters = creator.interpreters
               /\ IF create_ok
                  THEN /\ management'.template_store
                            = Append(management.template_store,
                                     Strip(creator.name_var))
                       /\ creator'.dialog = "Success"
                  ELSE /\ management' = management
                       /\ creator'.dialog = ""
        /\ OnCreateDialogClosed
            => /\ creator'.save_callback_calls = creator.save_callback_calls + 1
               /\ management'.template_store = management.template_store
               /\ management'.templates_treeview = management.template_store
               /\ creator'.window = "destroyed"
        /\ (creator.window # "none" /\ creator'.window # "none"
              /\ creator'.save_callback_calls > creator.save_callback_calls)
            => /\ creator.dialog = "Success"
               /\ Contains(management.template_store, creator.create_dto.name)
               /\ creator'.save_callback_calls = creator.save_callback_calls + 1
               /\ creator'.window = "destroyed"]_vars
  /\ [](creator.window = "destroyed" /\ creator.dialog = ""
        => creator.save_callback_calls
             = IF creator.create_dto # <<>> THEN 1 ELSE 0)

\* A template was created: the list of the management window shows it, the
\* callback was called once and the creator window is gone.
C29_Witness ==
  /\ creator.window = "destroyed"
  /\ creator.create_dto # <<>>
  /\ creator.save_callback_calls = 1
  /\ management.template_store = <<<<"T">>>>
  /\ management.templates_treeview = <<<<"T">>>>

\* C30: the configuration saved with an added interpreter type is the list
\* of items of the form of that type that the user has before them: when
\* the template is created, the form shown, if its type was added, is
\* saved with the items it shows.
C30_SavedConfigurationIsTheFormShown ==
  (creator.window = "destroyed" /\ creator.create_dto # <<>>
     /\ ShownForm(creator) # 0)
  => LET shown == creator.forms[ShownForm(creator)]
     IN \A k \in 1..Len(creator.create_dto.configured_interpreter) :
          creator.create_dto.configured_interpreter[k].type = shown.name
          => creator.create_dto.configured_interpreter[k].configuration
               = GetConfig(shown)

====
